---- MODULE Spec2Model ----
(***************************************************************************)
(* Companies House scraper (scraper.ts, the multi-page version) with the   *)
(* server's report handler and the PDF bridge statistics.                  *)
(*                                                                         *)
(* Text is modelled structurally.  A date cell is a sequence of character  *)
(* classes ("d" digit, "a" letter or underscore, "s" white space, "x" any  *)
(* other character); a description, a title, a link text and a URL are     *)
(* sequences of tokens: words and the separators between them (" ", "-",   *)
(* "/").  The empty sequence is the empty string.                          *)
(***************************************************************************)
EXTENDS Integers, Sequences, FiniteSets, TLC

VARIABLES
    dom,        \* the filing-history page the PDFExtractor reads
    xpc,        \* extractWithMultipleStrategies: next strategy, or "done"
    xouts,      \* what each strategy invoked so far produced, in call order
    xresult,    \* the value extractWithMultipleStrategies returned
    browser,    \* the page the browser shows: url, title, tabs, paging state
    nsection,   \* navigateToSection: the section name asked for
    npc,        \* navigateToSection: next approach, "returned" or "threw"
    ntrace,     \* navigateToSection: the approaches tried so far, in order
    fpc,        \* extractFilingHistory: "start", "page", "return", then "done"
                \* (returned after the loop) or "caught" (returned from the catch)
    maxPages,   \* extractFilingHistory: its argument
    estimatedTotalPages,
    pageNum,
    allFilings,
    pagesScraped,
    fresult,    \* what extractFilingHistory returned
    fNavCalls,  \* calls of navigateToFilingPage so far
    fShown,     \* the result pages the browser showed when extraction ran
    fYielded,   \* some strategy produced a filing on a scanned page
    fLog,       \* one entry per iteration of the page loop, in order
    statsIn,    \* the filings handed to the two statistics functions
    statsOut,   \* <<>> or <<what calculateFilingStatistics returned>>
    bridgeOut,  \* <<>> or <<what the bridge's calculateStatistics returned>>
    request,    \* the body of POST /api/enhanced-report
    spc,        \* the request's position in the handler and the scraper
    maxPeoplePages,
    result,     \* scrapeCompany's ScrapingResult
    pending,    \* the error runEnhancedCompaniesScraper is throwing, if any
    phases,     \* the phases of scrapeCompany that have run, with their outcome
    closes,     \* calls of scraper.close()
    response,   \* what the handler answered
    retries,    \* what the calls of retryOperation in searchCompany did, kept
                \* until the next phase starts
    catIn,      \* the description handed to categorizeFilingType
    catOut,     \* <<>> or <<the type it returned>>
    resolved,   \* the file './scraper.js' resolves to in server.ts
    rpc,        \* concurrent requests: the position of each
    touched     \* concurrent requests: who has used each resource

xvars == <<dom, xpc, xouts, xresult>>

nvars == <<browser, nsection, npc, ntrace>>

fvars == <<fpc, maxPages, estimatedTotalPages, pageNum, allFilings, pagesScraped,
           fresult, fNavCalls, fShown, fYielded, fLog>>

tvars == <<statsIn, statsOut, bridgeOut>>

svars == <<request, spc, maxPeoplePages, result, pending, phases, closes, response,
           retries>>

cvars == <<catIn, catOut>>

qvars == <<resolved, rpc, touched>>

\* the components added to the model after the first five
ovars == <<cvars, qvars>>

vars == <<xvars, nvars, fvars, tvars, svars, ovars>>

(***************************************************************************)
(* Bounds                                                                  *)
(***************************************************************************)
\* data rows of a filing table, and filings in one LLM answer
MaxRows == 2

\* result pages the site's pagination can announce
MaxTotalPages == 5

\* the largest maxPages a caller passes
MaxPagesArg == 3

\* the longest list handed to the statistics functions
MaxFilings == 40

\* the longest filing list handed to calculateQualityScore
MaxScoredFilings == 6

\* the largest maxPages in the body of a report request
MaxScrapePages == 1

\* the largest page limit a request body is validated with
MaxLimitArg == 52

\* pages of officers the site's pagination can announce
MaxPeopleTotal == 2

\* words and phrases in a filing description handed to categorizeFilingType
MaxWords == 3

(***************************************************************************)
(* Text helpers                                                            *)
(***************************************************************************)
IsDigit(c) == c = "d"

IsWordChar(c) == c \in {"d", "a"}

IsSpace(c) == c \in {"s", " "}

RECURSIVE TrimLeft(_)
TrimLeft(s) == IF s # <<>> /\ IsSpace(Head(s)) THEN TrimLeft(Tail(s)) ELSE s

RECURSIVE TrimRight(_)
TrimRight(s) ==
    IF s # <<>> /\ IsSpace(s[Len(s)])
    THEN TrimRight(SubSeq(s, 1, Len(s) - 1))
    ELSE s

\* String.prototype.trim
Trim(s) == TrimRight(TrimLeft(s))

\* The positions one past a non-empty run of characters satisfying P that
\* starts at a position of `from`, the run being at most `most` long.
RunEnds(s, P(_), from, most) ==
    { q \in 2..(Len(s) + 1) :
        \E p \in from : /\ p < q
                        /\ q - p <= most
                        /\ \A k \in p..(q - 1) : P(s[k]) }

\* date.match(/\d{1,2}\s+\w+\s+\d{4}/): an unanchored search
MatchesDatePattern(s) ==
    LET afterDay   == RunEnds(s, IsDigit, 1..Len(s), 2)
        afterGap1  == RunEnds(s, IsSpace, afterDay, Len(s))
        afterMonth == RunEnds(s, IsWordChar, afterGap1, Len(s))
        afterGap2  == RunEnds(s, IsSpace, afterMonth, Len(s))
    IN \E p \in afterGap2 :
          /\ p + 3 <= Len(s)
          /\ \A k \in p..(p + 3) : IsDigit(s[k])

\* String.prototype.toLowerCase on one token
LowerToken(t) ==
    CASE t = "Accounts" -> "accounts"
      [] t = "MICRO" -> "micro"
      [] t = "Confirmation" -> "confirmation"
      [] t = "iXBRL" -> "ixbrl"
      [] t = "PDF" -> "pdf"
      [] t = "View" -> "view"
      [] t = "XML" -> "xml"
      [] t = "Filing" -> "filing"
      [] t = "People" -> "people"
      [] t = "Officers" -> "officers"
      [] t = "Charges" -> "charges"
      [] t = "Insolvency" -> "insolvency"
      [] t = "ACME" -> "acme"
      [] t = "LTD" -> "ltd"
      [] t = "Search" -> "search"
      [] t = "Browser" -> "browser"
      [] t = "Executable" -> "executable"
      [] t = "Navigation" -> "navigation"
      [] OTHER -> t

ToLowerCase(s) == [i \in 1..Len(s) |-> LowerToken(s[i])]

\* String.prototype.includes for a phrase of consecutive tokens
Includes(s, phrase) ==
    \E i \in 1..Len(s) :
        /\ i + Len(phrase) - 1 <= Len(s)
        /\ SubSeq(s, i, i + Len(phrase) - 1) = phrase

\* String.prototype.startsWith for a one-token prefix
StartsWith(s, t) == s # <<>> /\ Head(s) = t

Origin == "https://find-and-update.company-information.service.gov.uk"

\* a word of 201 letters
LongWord == "L201"

\* The length in characters of a token of a URL
TokenLength(t) ==
    CASE t = Origin -> 58
      [] t = LongWord -> 201
      [] t = "/" -> 1
      [] t = " " -> 1
      [] t = "A" -> 1
      [] t = "http://a.b" -> 10
      [] t = "https://other.example" -> 21
      [] t = "document?format=pdf" -> 19
      [] t = "document?format=xhtml" -> 21
      [] OTHER -> 8

RECURSIVE StringLength(_)
StringLength(s) ==
    IF s = <<>> THEN 0 ELSE TokenLength(Head(s)) + StringLength(Tail(s))

\* A sequence filtered and mapped, as Array.filter / Array.map do
MapSeq(s, F(_)) == [i \in 1..Len(s) |-> F(s[i])]

\* The sequences of length 0..n over the set S
SeqsUpTo(S, n) == UNION { [1..k -> S] : k \in 0..n }

(***************************************************************************)
(* ScraperUtils.categorizeFilingType / PDFExtractor.categorizeFilingType   *)
(***************************************************************************)
\* the same rules with the plain accounts rule ahead of its refinements
categorizeAccountsFirst(description) ==
    LET desc == ToLowerCase(description)
        has(w) == Includes(desc, <<w>>)
    IN  IF Includes(desc, <<"confirmation", " ", "statement">>) THEN "Confirmation Statement"
        ELSE IF Includes(desc, <<"annual", " ", "return">>) THEN "Annual Return"
        ELSE IF has("accounts") THEN "Company Accounts"
        ELSE IF has("incorporation") THEN "Incorporation"
        ELSE IF has("appointment") THEN "Officer Appointment"
        ELSE IF has("termination") \/ has("resignation") THEN "Officer Termination"
        ELSE IF has("change") /\ has("details") THEN "Officer Details Change"
        ELSE IF has("resolution") THEN "Resolution"
        ELSE IF has("charge") THEN "Charge Registration"
        ELSE "Other"

categorizeFilingType(description) ==
    LET desc == ToLowerCase(description)
        has(w) == Includes(desc, <<w>>)
    IN  IF Includes(desc, <<"confirmation", " ", "statement">>) THEN "Confirmation Statement"
        ELSE IF Includes(desc, <<"annual", " ", "return">>) THEN "Annual Return"
        ELSE IF has("accounts") /\ has("micro") THEN "Micro Company Accounts"
        ELSE IF has("accounts") /\ has("small") THEN "Small Company Accounts"
        ELSE IF has("accounts") /\ has("dormant") THEN "Dormant Company Accounts"
        ELSE IF has("accounts") THEN "Company Accounts"
        ELSE IF has("incorporation") THEN "Incorporation"
        ELSE IF has("appointment") THEN "Officer Appointment"
        ELSE IF has("termination") \/ has("resignation") THEN "Officer Termination"
        ELSE IF has("change") /\ has("details") THEN "Officer Details Change"
        ELSE IF has("resolution") THEN "Resolution"
        ELSE IF has("charge") THEN "Charge Registration"
        ELSE "Other"

\* what filing descriptions are made of: the rules' keywords in the letter
\* case the registry prints them in, and words no rule looks for
DescriptionWords ==
    { <<"Confirmation", " ", "statement">>, <<"annual", " ", "return">>, <<"Accounts">>,
      <<"MICRO">>, <<"small">>, <<"dormant">>, <<"incorporation">>, <<"appointment">>,
      <<"termination">>, <<"resignation">>, <<"change">>, <<"details">>, <<"resolution">>,
      <<"charge">>, <<"statement">>, <<"of">> }

\* the words joined by single spaces
RECURSIVE Describe(_)
Describe(words) ==
    IF words = <<>> THEN <<>>
    ELSE IF Len(words) = 1 THEN Head(words)
    ELSE Head(words) \o <<" ">> \o Describe(Tail(words))

Descriptions == { Describe(ws) : ws \in SeqsUpTo(DescriptionWords, MaxWords) }

\* a call of categorizeFilingType
Categorize ==
    /\ catOut = <<>>
    /\ catOut' = <<categorizeFilingType(catIn)>>
    /\ UNCHANGED <<catIn, qvars, xvars, nvars, fvars, tvars, svars>>

(***************************************************************************)
(* The registry site as the Navigator sees it                              *)
(***************************************************************************)
CompanyBase == <<Origin, "/", "company", "/", "00000001">>

PageKeys == {"overview", "filing-history", "officers", "charges", "search", "notfound"}

PageUrl(key) ==
    CASE key = "overview" -> CompanyBase
      [] key = "filing-history" -> CompanyBase \o <<"/", "filing", "-", "history">>
      [] key = "officers" -> CompanyBase \o <<"/", "officers">>
      [] key = "charges" -> CompanyBase \o <<"/", "charges">>
      [] key = "search" -> <<Origin, "/", "search", "/", "companies">>
      [] key = "notfound" -> CompanyBase \o <<"/", "insolvency">>

PageTitle(key) ==
    CASE key = "overview" -> <<"ACME", " ", "LTD", " ", "overview">>
      [] key = "filing-history" -> <<"ACME", " ", "LTD", " ", "filing", " ", "history">>
      [] key = "officers" -> <<"ACME", " ", "LTD", " ", "people">>
      [] key = "charges" -> <<"ACME", " ", "LTD", " ", "charges">>
      [] key = "search" -> <<"Search", " ", "results">>
      [] key = "notfound" -> <<"Page", " ", "not", " ", "found">>

\* the tab links of a company page: their text and where they lead
CompanyTabs ==
    << [text |-> <<"Overview">>, to |-> "overview"],
       [text |-> <<"Filing", " ", "history">>, to |-> "filing-history"],
       [text |-> <<"People">>, to |-> "officers"],
       [text |-> <<"Charges">>, to |-> "charges"] >>

PageTabs(key) == IF key \in {"search", "notfound"} THEN <<>> ELSE CompanyTabs

\* The browser after loading a page: first result page, no page parameter
Landed(key) ==
    [url |-> PageUrl(key), title |-> PageTitle(key), tabs |-> PageTabs(key),
     query |-> 0, active |-> 0, shown |-> 1]

\* A URL the site does not serve: the address stays, the content is an error page
ErrorPage(url) ==
    [url |-> url, title |-> PageTitle("notfound"), tabs |-> <<>>,
     query |-> 0, active |-> 0, shown |-> 1]

(***************************************************************************)
(* Navigator                                                               *)
(***************************************************************************)
RECURSIVE ReplaceFirstSpace(_)
\* String.prototype.replace(' ', '-'): the first occurrence only
ReplaceFirstSpace(s) ==
    IF s = <<>> THEN <<>>
    ELSE IF Head(s) = " " THEN <<"-">> \o Tail(s)
    ELSE <<Head(s)>> \o ReplaceFirstSpace(Tail(s))

EndsWith(s, suffix) ==
    /\ Len(suffix) <= Len(s)
    /\ SubSeq(s, Len(s) - Len(suffix) + 1, Len(s)) = suffix

SectionSuffixes ==
    { <<"/", "filing", "-", "history">>, <<"/", "officers">>, <<"/", "people">>,
      <<"/", "charges">>, <<"/", "more">> }

\* currentUrl.split(/[?#]/)[0].replace(/\/(filing-history|officers|people|charges|more)$/, '')
\* (browser.url holds the address without its query)
BaseUrl(url) ==
    IF \E x \in SectionSuffixes : EndsWith(url, x)
    THEN LET x == CHOOSE y \in SectionSuffixes : EndsWith(url, y)
         IN SubSeq(url, 1, Len(url) - Len(x))
    ELSE url

\* sectionPaths[sectionName.toLowerCase()]; <<>> when the name is not a key
SectionPath(lower) ==
    CASE lower = <<"filing", " ", "history">> -> <<"/", "filing", "-", "history">>
      [] lower = <<"people">> -> <<"/", "officers">>
      [] lower = <<"officers">> -> <<"/", "officers">>
      [] lower = <<"charges">> -> <<"/", "charges">>
      [] lower = <<"more">> -> <<"/", "more">>
      [] OTHER -> <<>>

\* what the site serves at a URL
Serve(url) ==
    IF \E k \in PageKeys \ {"notfound"} : PageUrl(k) = url
    THEN Landed(CHOOSE k \in PageKeys \ {"notfound"} : PageUrl(k) = url)
    ELSE ErrorPage(url)

\* page.act("Click on the link or tab that contains ..."): the agent clicks
\* something (env.land) or the call rejects
clickTabLink(section, b, env) ==
    IF env.fails THEN [threw |-> TRUE, browser |-> b]
    ELSE [threw |-> FALSE,
          browser |-> IF env.land = "stay" THEN b ELSE Landed(env.land)]

directURLNavigation(section, b, env) ==
    LET targetPath == SectionPath(ToLowerCase(section))
        targetUrl == BaseUrl(b.url) \o targetPath
    IN  IF targetPath = <<>> THEN [threw |-> TRUE, browser |-> b]
        ELSE IF env.fails THEN [threw |-> TRUE, browser |-> b]
        ELSE [threw |-> FALSE,
              browser |-> IF env.served THEN Serve(targetUrl) ELSE ErrorPage(targetUrl)]

\* the first a/button whose text contains the section name is clicked
searchAndClick(section, b, env) ==
    LET hits == SelectSeq(b.tabs,
                    LAMBDA t : Includes(ToLowerCase(t.text), ToLowerCase(section)))
    IN  IF env.fails \/ hits = <<>> THEN [threw |-> TRUE, browser |-> b]
        ELSE [threw |-> FALSE,
              browser |-> IF env.land = "stay" THEN b ELSE Landed(hits[1].to)]

\* A verification that trusts any approach that did not throw
NavigationUnchecked(section, b) == TRUE

\* "Verify navigation worked"
NavigationVerified(section, b) ==
    \/ Includes(ToLowerCase(b.url), ReplaceFirstSpace(ToLowerCase(section)))
    \/ Includes(ToLowerCase(b.title), ToLowerCase(section))

ClickEnvs ==
    [fails : BOOLEAN, land : PageKeys \cup {"stay"}, served : {TRUE}, titleFails : BOOLEAN]

DirectEnvs == [fails : BOOLEAN, land : {"stay"}, served : BOOLEAN, titleFails : BOOLEAN]

SearchEnvs ==
    [fails : BOOLEAN, land : {"follow", "stay"}, served : {TRUE}, titleFails : BOOLEAN]

NavEnvs(approach) ==
    CASE approach = "clickTabLink" -> ClickEnvs
      [] approach = "directURLNavigation" -> DirectEnvs
      [] approach = "searchAndClick" -> SearchEnvs

\* One iteration of the strategies loop: the approach, then the verification.
\* env.titleFails: page.evaluate(() => document.title) rejects.
NavAttempt(approach, section, b, env) ==
    LET moved == CASE approach = "clickTabLink" -> clickTabLink(section, b, env)
                   [] approach = "directURLNavigation" -> directURLNavigation(section, b, env)
                   [] approach = "searchAndClick" -> searchAndClick(section, b, env)
    IN  IF moved.threw \/ env.titleFails
        THEN [threw |-> TRUE, browser |-> moved.browser, verified |-> FALSE]
        ELSE [threw |-> FALSE, browser |-> moved.browser,
              verified |-> NavigationVerified(section, moved.browser)]

\* the strategies array, by position; past its end the method throws
NextApproach(approach) ==
    CASE approach = "clickTabLink" -> "directURLNavigation"
      [] approach = "directURLNavigation" -> "searchAndClick"
      [] approach = "searchAndClick" -> "threw"

NavStep(approach) ==
    /\ npc = approach
    /\ \E env \in NavEnvs(approach) :
          LET o == NavAttempt(approach, nsection, browser, env)
          IN /\ browser' = o.browser
             /\ ntrace' = Append(ntrace, [approach |-> approach, threw |-> o.threw,
                                          url |-> o.browser.url, title |-> o.browser.title])
             /\ npc' = IF ~o.threw /\ o.verified THEN "returned" ELSE NextApproach(approach)
    /\ UNCHANGED <<ovars, nsection, xvars, fvars, tvars, svars>>

NavClickTabLink == NavStep("clickTabLink")

NavDirectURL == NavStep("directURLNavigation")

NavSearchAndClick == NavStep("searchAndClick")

SectionNames == { <<"Filing", " ", "history">>, <<"People">>, <<"Charges">>, <<"Insolvency">> }

(***************************************************************************)
(* The filing-history page.  A table row is its td texts and the anchors   *)
(* of its last cell; trs[1] is the header row (th cells only).             *)
(***************************************************************************)
DateUK == <<"d", "d", "s", "a", "a", "a", "s", "d", "d", "d", "d">>   \* 01 Jan 2024

DateSlashed == <<"d", "d", "x", "d", "d", "x", "d", "d", "d", "d">>   \* 01/01/2024

DateNoDay == <<"a", "a", "a", "s", "d", "d", "d", "d">>               \* Jan 2024

DatePadded == <<"s", "d", "s", "d", "d", "s", "d", "d", "d", "d", "s">> \* " 1 12 2024 "

AnchorDownload ==
    [cls |-> TRUE, href |-> <<"/", "document?format=pdf">>,
     text |-> <<"View", " ", "PDF">>, pages |-> <<"3">>]

AnchorOther ==
    [cls |-> FALSE, href |-> <<"/", "document?format=pdf">>,
     text |-> <<"View", " ", "PDF">>, pages |-> <<>>]

\* an href written relative to the page's path, as getAttribute('href') returns it
AnchorRelative ==
    [cls |-> TRUE, href |-> <<"document?format=pdf">>,
     text |-> <<"View", " ", "PDF">>, pages |-> <<>>]

HeaderRow == [tds |-> <<>>, links |-> <<>>]

RowFiled ==
    [tds |-> <<DateUK, <<"CS01">>, <<"Confirmation", " ", "statement">>, <<"View", " ", "PDF">>>>,
     links |-> <<AnchorDownload>>]

RowPaddedNoLink ==
    [tds |-> <<DatePadded, <<"AA">>, <<"Accounts">>, <<>>>>, links |-> <<>>]

RowSlashed ==
    [tds |-> <<DateSlashed, <<"AA">>, <<"Accounts">>, <<"View", " ", "PDF">>>>,
     links |-> <<AnchorDownload>>]

RowThreeCells ==
    [tds |-> <<DateUK, <<"Accounts">>, <<"View", " ", "PDF">>>>, links |-> <<AnchorDownload>>]

RowTwoCells == [tds |-> <<DateUK, <<"Accounts">>>>, links |-> <<>>]

RowNoDescription ==
    [tds |-> <<DateUK, <<"AA">>, <<>>, <<"View", " ", "PDF">>>>, links |-> <<AnchorDownload>>]

RowBlankDate ==
    [tds |-> <<<<"s">>, <<"AA">>, <<"Accounts">>, <<"View", " ", "PDF">>>>,
     links |-> <<AnchorDownload>>]

RowOtherAnchor ==
    [tds |-> <<DateUK, <<"AA">>, <<"Accounts">>, <<"View", " ", "PDF">>>>,
     links |-> <<AnchorOther>>]

RowRelativeHref ==
    [tds |-> <<DateUK, <<"AA">>, <<"Accounts">>, <<"View", " ", "PDF">>>>,
     links |-> <<AnchorRelative>>]

RowSamples ==
    { RowFiled, RowPaddedNoLink, RowSlashed, RowThreeCells, RowTwoCells,
      RowNoDescription, RowBlankDate, RowOtherAnchor, RowRelativeHref }

NoTable == [hasTable |-> FALSE, trs |-> <<>>]

Doms ==
    {NoTable} \cup
    { [hasTable |-> TRUE, trs |-> <<HeaderRow>> \o rows] :
        rows \in SeqsUpTo(RowSamples, MaxRows) }

\* What a strategy hands to the runner: a list of filings, or an exception
Returned(filings) == [threw |-> FALSE, filings |-> filings]

Threw == [threw |-> TRUE, filings |-> <<>>]

HasXhtmlFormat(url) == \E i \in 1..Len(url) : url[i] = "document?format=xhtml"

Absolutize(url) == IF StartsWith(url, "/") THEN <<Origin>> \o url ELSE url

(***************************************************************************)
(* PDFExtractor.extractWithDirectDOM                                       *)
(***************************************************************************)
DomDocumentLink(a) ==
    LET linkText == Trim(a.text)
    IN [linkText  |-> linkText,
        linkType  |-> IF Includes(ToLowerCase(linkText), <<"ixbrl">>) \/ HasXhtmlFormat(a.href)
                      THEN "iXBRL"
                      ELSE IF Includes(ToLowerCase(linkText), <<"xml">>) THEN "XML" ELSE "PDF",
        url       |-> Absolutize(a.href),
        pageCount |-> a.pages]

DomDocumentLinks(row) ==
    MapSeq(SelectSeq(row.links, LAMBDA a : a.cls /\ a.href # <<>> /\ Trim(a.text) # <<>>),
           DomDocumentLink)

\* One iteration of the row loop: the row is skipped, pushed, or the
\* in-page call of this.categorizeFilingType raises.  The callback runs in the
\* browser, where `this` is not the PDFExtractor: inPageThis says whether the
\* runtime resolves the method there.
DomRowOutcome(row, inPageThis) ==
    LET n == Len(row.tds)
        date == Trim(row.tds[1])
        description == Trim(IF n > 3 THEN row.tds[3] ELSE row.tds[2])
        type == IF n > 3 THEN Trim(row.tds[2]) ELSE <<>>
    IN  IF n < 3 THEN [kind |-> "skip"]
        ELSE IF date = <<>> \/ ~MatchesDatePattern(date) THEN [kind |-> "skip"]
        ELSE IF description = <<>> THEN [kind |-> "skip"]
        ELSE IF type = <<>> /\ ~inPageThis THEN [kind |-> "throw"]
        ELSE [kind |-> "push",
              filing |-> [date |-> date,
                          description |-> description,
                          type |-> IF type # <<>> THEN type
                                   ELSE <<categorizeFilingType(description)>>,
                          status |-> "Filed",
                          documentLinks |-> DomDocumentLinks(row)]]

RECURSIVE DomRows(_, _, _)
DomRows(rows, inPageThis, results) ==
    IF rows = <<>> THEN Returned(results)
    ELSE LET o == DomRowOutcome(Head(rows), inPageThis)
         IN  IF o.kind = "throw" THEN Threw
             ELSE DomRows(Tail(rows), inPageThis,
                          IF o.kind = "push" THEN Append(results, o.filing) ELSE results)

\* env.evalFails: debugPageContent or page.evaluate rejects
extractWithDirectDOM(page, env) ==
    IF env.evalFails THEN Threw
    ELSE IF ~page.hasTable THEN Returned(<<>>)
    ELSE DomRows(Tail(page.trs), env.inPageThis, <<>>)

DomEnvs == [evalFails : BOOLEAN, inPageThis : BOOLEAN]

(***************************************************************************)
(* PDFExtractor.extractWithLLM                                             *)
(***************************************************************************)
LlmLinkPdf ==
    [linkText |-> <<"View", " ", "PDF">>,
     url |-> <<Origin, "/", "document?format=pdf">>, pageCount |-> <<"3">>]

LlmLinkShort == [linkText |-> <<>>, url |-> <<"http://a.b">>, pageCount |-> <<>>]

LlmFiled ==
    [date |-> DateUK, description |-> <<"Confirmation", " ", "statement">>,
     documentLinks |-> <<LlmLinkPdf>>]

LlmSlashed ==
    [date |-> DateSlashed, description |-> <<"Accounts">>, documentLinks |-> <<LlmLinkPdf>>]

LlmNoLinks == [date |-> DateUK, description |-> <<"Accounts">>, documentLinks |-> <<>>]

LlmShortUrl ==
    [date |-> DateNoDay, description |-> <<"Accounts">>, documentLinks |-> <<LlmLinkShort>>]

\* z.string().url() accepts any absolute URL, whatever its host
LlmLinkForeign ==
    [linkText |-> <<"View", " ", "PDF">>,
     url |-> <<"https://other.example", "/", "document?format=pdf">>, pageCount |-> <<>>]

LlmForeignHost ==
    [date |-> DateUK, description |-> <<"Accounts">>, documentLinks |-> <<LlmLinkForeign>>]

LlmFilingSamples == {LlmFiled, LlmSlashed, LlmNoLinks, LlmShortUrl, LlmForeignHost}

\* page.extract for the whole table: a schema-valid answer, or an exception
LlmAnswers == {Threw} \cup { Returned(fs) : fs \in SeqsUpTo(LlmFilingSamples, MaxRows) }

LlmDocumentLink(link) ==
    LET url == Absolutize(link.url)
    IN [linkText  |-> IF link.linkText # <<>> THEN link.linkText ELSE <<"View", " ", "Document">>,
        url       |-> url,
        linkType  |-> IF Includes(ToLowerCase(link.linkText), <<"ixbrl">>) \/ HasXhtmlFormat(url)
                      THEN "iXBRL"
                      ELSE IF Includes(ToLowerCase(link.linkText), <<"xml">>) THEN "XML" ELSE "PDF",
        pageCount |-> link.pageCount]

LlmFiling(filing) ==
    [date |-> filing.date,
     description |-> filing.description,
     type |-> <<categorizeFilingType(filing.description)>>,
     status |-> "Filed",
     documentLinks |-> SelectSeq(MapSeq(filing.documentLinks, LlmDocumentLink),
                                 LAMBDA l : l.url # <<>> /\ StringLength(l.url) > 10)]

extractWithLLM(answer) ==
    IF answer.threw THEN Returned(<<>>)
    ELSE Returned(MapSeq(answer.filings, LlmFiling))

(***************************************************************************)
(* PDFExtractor.extractWithHybridApproach                                  *)
(***************************************************************************)
HybridLinkPdf ==
    [url |-> <<Origin, "/", "document?format=pdf">>, text |-> <<"View", " ", "PDF">>,
     pageCount |-> <<>>]

HybridLinkForeign ==
    [url |-> <<"https://other.example", "/", "document?format=pdf">>,
     text |-> <<"View", " ", "PDF">>, pageCount |-> <<>>]

\* page.extract for one link cell: a list of links, or an exception
HybridAnswers ==
    { [threw |-> TRUE, links |-> <<>>],
      [threw |-> FALSE, links |-> <<>>],
      [threw |-> FALSE, links |-> <<HybridLinkPdf>>],
      [threw |-> FALSE, links |-> <<HybridLinkForeign>>] }

HybridEnvs == [evalFails : BOOLEAN, answers : [1..MaxRows -> HybridAnswers]]

HybridTableStructure(page) ==
    MapSeq(SelectSeq(Tail(page.trs), LAMBDA row : Len(row.tds) >= 3),
           LAMBDA row : [date |-> Trim(row.tds[1]),
                         description |-> Trim(IF Len(row.tds) > 3 THEN row.tds[3]
                                              ELSE row.tds[2])])

HybridDocumentLink(link) ==
    LET url == Absolutize(link.url)
    IN [linkText  |-> IF link.text # <<>> THEN link.text ELSE <<"View", " ", "Document">>,
        url       |-> url,
        linkType  |-> IF Includes(ToLowerCase(link.text), <<"ixbrl">>) \/ HasXhtmlFormat(url)
                      THEN "iXBRL" ELSE "PDF",
        pageCount |-> link.pageCount]

\* The row loop: row i asks the LLM for its links (answers[i])
RECURSIVE HybridRows(_, _, _, _)
HybridRows(rows, answers, i, filings) ==
    IF i > Len(rows) THEN filings
    ELSE LET row == rows[i]
             kept == ~answers[i].threw /\ row.date # <<>> /\ row.description # <<>>
         IN HybridRows(rows, answers, i + 1,
               IF kept
               THEN Append(filings,
                      [date |-> row.date,
                       description |-> row.description,
                       type |-> <<categorizeFilingType(row.description)>>,
                       status |-> "Filed",
                       documentLinks |-> MapSeq(answers[i].links, HybridDocumentLink)])
               ELSE filings)

extractWithHybridApproach(page, env) ==
    IF env.evalFails THEN Threw
    ELSE IF ~page.hasTable THEN Returned(<<>>)
    ELSE LET tableStructure == HybridTableStructure(page)
         IN IF Len(tableStructure) = 0 THEN Returned(<<>>)
            ELSE Returned(HybridRows(tableStructure, env.answers, 1, <<>>))

(***************************************************************************)
(* PDFExtractor.extractWithMultipleStrategies                              *)
(***************************************************************************)
\* A runner that returns whatever is non-empty, as PeopleExtractor's does
HasAnyFiling(results) == Len(results) > 0

\* results.length > 0 and filingsWithPDFs.length > 0
HasDocumentLinks(results) ==
    /\ Len(results) > 0
    /\ \E i \in 1..Len(results) : Len(results[i].documentLinks) > 0

\* the strategies array, by position
NextStrategy(name) ==
    CASE name = "Direct DOM" -> "LLM with URL type"
      [] name = "LLM with URL type" -> "Hybrid Approach"
      [] name = "Hybrid Approach" -> "done"

\* One iteration of the strategy loop; falling out of the loop returns [].
TryStrategy(name, out) ==
    /\ xpc = name
    /\ xouts' = Append(xouts, [name |-> name, threw |-> out.threw, filings |-> out.filings])
    /\ IF ~out.threw /\ HasDocumentLinks(out.filings)
       THEN xpc' = "done" /\ xresult' = out.filings
       ELSE xpc' = NextStrategy(name) /\ xresult' = <<>>
    /\ UNCHANGED <<ovars, dom, nvars, fvars, tvars, svars>>

RunDirectDOM == \E env \in DomEnvs : TryStrategy("Direct DOM", extractWithDirectDOM(dom, env))

RunLLM == \E answer \in LlmAnswers : TryStrategy("LLM with URL type", extractWithLLM(answer))

RunHybrid ==
    \E env \in HybridEnvs : TryStrategy("Hybrid Approach", extractWithHybridApproach(dom, env))

(***************************************************************************)
(* The runs of the two loops as the callers see them                       *)
(***************************************************************************)
StrategyOutcome(name, page, env) ==
    CASE name = "Direct DOM" -> extractWithDirectDOM(page, env.dom)
      [] name = "LLM with URL type" -> extractWithLLM(env.llm)
      [] name = "Hybrid Approach" -> extractWithHybridApproach(page, env.hybrid)

RECURSIVE StrategiesFrom(_, _, _)
StrategiesFrom(name, page, env) ==
    IF name = "done" THEN <<>>
    ELSE LET out == StrategyOutcome(name, page, env)
         IN  IF ~out.threw /\ HasDocumentLinks(out.filings) THEN out.filings
             ELSE StrategiesFrom(NextStrategy(name), page, env)

extractWithMultipleStrategies(page, env) == StrategiesFrom("Direct DOM", page, env)

RECURSIVE NavigateFrom(_, _, _, _)
NavigateFrom(approach, section, b, envs) ==
    IF approach = "threw" THEN [threw |-> TRUE, browser |-> b]
    ELSE LET o == NavAttempt(approach, section, b, envs[approach])
         IN  IF ~o.threw /\ o.verified THEN [threw |-> FALSE, browser |-> o.browser]
             ELSE NavigateFrom(NextApproach(approach), section, o.browser, envs)

navigateToSection(section, b, envs) == NavigateFrom("clickTabLink", section, b, envs)

\* How the site answers the three approaches during one navigateToSection
NavScripts(target) ==
    { [clickTabLink |-> [fails |-> c, land |-> target, served |-> TRUE, titleFails |-> FALSE],
       directURLNavigation |-> [fails |-> d, land |-> "stay", served |-> TRUE, titleFails |-> FALSE],
       searchAndClick |-> [fails |-> TRUE, land |-> "stay", served |-> TRUE, titleFails |-> FALSE]]
      : c \in BOOLEAN, d \in BOOLEAN }

(***************************************************************************)
(* What one result page holds and how the LLM answers on it                *)
(***************************************************************************)
TableOf(rows) == [hasTable |-> TRUE, trs |-> <<HeaderRow>> \o rows]

NoHybridLinks == [i \in 1..MaxRows |-> [threw |-> FALSE, links |-> <<>>]]

HybridLinks == [i \in 1..MaxRows |-> [threw |-> FALSE, links |-> <<HybridLinkPdf>>]]

DomOk == [evalFails |-> FALSE, inPageThis |-> FALSE]

PageScenarios ==
    { \* the table parses: Direct DOM wins
      [page |-> TableOf(<<RowFiled>>),
       env |-> [dom |-> DomOk, llm |-> Threw,
                hybrid |-> [evalFails |-> FALSE, answers |-> NoHybridLinks]]],
      \* no table, no LLM answer: every strategy yields nothing
      [page |-> NoTable,
       env |-> [dom |-> DomOk, llm |-> Threw,
                hybrid |-> [evalFails |-> FALSE, answers |-> NoHybridLinks]]],
      \* no table: the LLM wins with two filings, one of them with a link
      [page |-> NoTable,
       env |-> [dom |-> DomOk, llm |-> Returned(<<LlmSlashed, LlmNoLinks>>),
                hybrid |-> [evalFails |-> FALSE, answers |-> NoHybridLinks]]],
      \* filings everywhere, links nowhere
      [page |-> TableOf(<<RowOtherAnchor>>),
       env |-> [dom |-> DomOk, llm |-> Returned(<<LlmNoLinks>>),
                hybrid |-> [evalFails |-> FALSE, answers |-> NoHybridLinks]]],
      \* only the per-row LLM call finds the link
      [page |-> TableOf(<<RowOtherAnchor>>),
       env |-> [dom |-> DomOk, llm |-> Threw,
                hybrid |-> [evalFails |-> FALSE, answers |-> HybridLinks]]] }

StrategyNames == <<"Direct DOM", "LLM with URL type", "Hybrid Approach">>

\* some strategy produced at least one filing on this page
SomeStrategyYields(sc) ==
    \E i \in 1..Len(StrategyNames) :
        StrategyOutcome(StrategyNames[i], sc.page, sc.env).filings # <<>>

(***************************************************************************)
(* Pagination of the filing history                                        *)
(***************************************************************************)
Min(a, b) == IF a < b THEN a ELSE b

\* a loop bound that forgets the caller's limit
ScanAllDetected(total, limit) == total

\* Math.min(estimatedTotalPages, maxPages)
PagesToScan(total, limit) == Min(total, limit)

\* the pagination controls: links for pages 1..n (none when n = 0)
PaginationLinks == { 1..n : n \in 0..MaxTotalPages }

MaxOf(S) == CHOOSE y \in S : \A z \in S : z <= y

getTotalPageCount(links, fails) == IF fails THEN 1 ELSE MaxOf(links \cup {1})

\* URL parameter first, then the active pagination item, then 1
getCurrentFilingPage(b, fails) ==
    IF fails THEN 1
    ELSE IF b.query # 0 THEN b.query
    ELSE IF b.active # 0 THEN b.active
    ELSE 1

AtPage(b, k) == [b EXCEPT !.query = k, !.active = k, !.shown = k]

FirstPage(b) == [b EXCEPT !.query = 0, !.active = 0, !.shown = 1]

PageNavEnvs == [curFails : BOOLEAN, linkPresent : BOOLEAN, arrives : BOOLEAN, fails : BOOLEAN]

\* env.fails: the click's page.evaluate or page.goto rejects;
\* env.arrives: the site then shows the page asked for
navigateToFilingPage(pageNumber, b, env) ==
    IF getCurrentFilingPage(b, env.curFails) = pageNumber
    THEN [threw |-> FALSE, browser |-> b]
    ELSE IF env.fails THEN [threw |-> TRUE, browser |-> b]
    ELSE IF env.linkPresent
    THEN [threw |-> FALSE, browser |-> IF env.arrives THEN AtPage(b, pageNumber) ELSE b]
    ELSE [threw |-> FALSE,
          browser |-> IF env.arrives THEN AtPage(b, pageNumber) ELSE FirstPage(b)]

(***************************************************************************)
(* JavaScript numbers: x / y and q * 100 are IEEE-754 binary64 operations, *)
(* each rounded to 53 significant bits, ties to even.  A 53-bit            *)
(* significand is kept in three limbs of 20, 20 and 13 bits,               *)
(*     hi * 2^33 + mid * 2^13 + lo,                                        *)
(* so that every intermediate value stays below 2^31.                      *)
(***************************************************************************)
HighBits == 20

MidBits == 20

LowBits == 13

RECURSIVE Pow2(_)
Pow2(k) == IF k = 0 THEN 1 ELSE 2 * Pow2(k - 1)

\* the zero binary digits of r / n ahead of its first one (0 < r < n)
RECURSIVE LeadingZeros(_, _)
LeadingZeros(r, n) == IF 2 * r >= n THEN 0 ELSE 1 + LeadingZeros(2 * r, n)

\* carries propagated upwards; hi keeps whatever exceeds its width
Normalize(hi, mid, lo) ==
    LET mid2 == mid + lo \div Pow2(LowBits)
    IN  [hi |-> hi + mid2 \div Pow2(MidBits),
         mid |-> mid2 % Pow2(MidBits),
         lo |-> lo % Pow2(LowBits)]

\* round to nearest, ties to even, at the binary place `drop` of lo (drop <= 13):
\* the significand stays scaled, its dropped bits cleared
RoundAt(x, drop) ==
    LET unit == Pow2(drop)
        tail == x.lo % unit
        odd == (x.lo \div unit) % 2 = 1
        up == 2 * tail > unit \/ (2 * tail = unit /\ odd)
    IN  Normalize(x.hi, x.mid, x.lo - tail + (IF up THEN unit ELSE 0))

\* a / n for 0 < a < n < 2^11: the significand of the quotient, scaled by
\* 2^(zeros + 53)
FloatDivide(a, n) ==
    LET zeros == LeadingZeros(a, n)
        r0 == a * Pow2(zeros)
        hi == (r0 * Pow2(HighBits)) \div n
        r1 == (r0 * Pow2(HighBits)) % n
        mid == (r1 * Pow2(MidBits)) \div n
        r2 == (r1 * Pow2(MidBits)) % n
        lo == (r2 * Pow2(LowBits)) \div n
        r3 == (r2 * Pow2(LowBits)) % n
        up == 2 * r3 > n \/ (2 * r3 = n /\ lo % 2 = 1)
        q == Normalize(hi, mid, lo + (IF up THEN 1 ELSE 0))
    IN  [hi |-> q.hi, mid |-> q.mid, lo |-> q.lo, scale |-> zeros + HighBits + MidBits + LowBits]

RECURSIVE BitLength(_)
BitLength(c) == IF c = 0 THEN 0 ELSE 1 + BitLength(c \div 2)

\* x * k for a natural 1 <= k < 2^7: the exact product, then rounded back to
\* 53 significant bits
FloatTimes(x, k) ==
    LET product == Normalize(x.hi * k, x.mid * k, x.lo * k)
        drop == BitLength(product.hi) - HighBits
        r == RoundAt(product, drop)
    IN  [hi |-> r.hi, mid |-> r.mid, lo |-> r.lo, scale |-> x.scale]

\* Math.round: floor(x + 1/2), exact, for 2^-10 < x < 2^30
MathRound(x) ==
    LET below == x.scale - MidBits - LowBits   \* binary places of hi below the point
    IN  (x.hi + Pow2(below - 1)) \div Pow2(below)

\* Math.round((x / y) * 100) for 0 <= x <= y, y > 0
RoundPercent(x, y) ==
    IF x = 0 THEN 0
    ELSE IF x = y THEN 100
    ELSE MathRound(FloatTimes(FloatDivide(x, y), 100))

\* parseInt(link.pageCount || "0")
PageCountOf(link) == IF link.pageCount = <<"3">> THEN 3 ELSE 0

RECURSIVE SumPages(_)
SumPages(links) == IF links = <<>> THEN 0 ELSE PageCountOf(Head(links)) + SumPages(Tail(links))

RECURSIVE TotalPages(_)
TotalPages(filings) ==
    IF filings = <<>> THEN 0
    ELSE SumPages(Head(filings).documentLinks) + TotalPages(Tail(filings))

calculateFilingStatistics(filings) ==
    LET filingsWithDocs == SelectSeq(filings, LAMBDA f : Len(f.documentLinks) > 0)
        types == { filings[i].type : i \in 1..Len(filings) }
    IN [totalFilings |-> Len(filings),
        filingsWithDocuments |-> Len(filingsWithDocs),
        totalDocumentPages |-> TotalPages(filings),
        documentSuccessRate |-> IF Len(filings) > 0
                                THEN RoundPercent(Len(filingsWithDocs), Len(filings))
                                ELSE 0,
        filingTypes |-> [t \in types |->
                            Cardinality({ i \in 1..Len(filings) : filings[i].type = t })]]

Null == [isNull |-> TRUE]

\* new Date(d) on a non-ISO date string is implementation-defined: `parses`
\* tells whether the engine accepts the dates of this page format
calculateDateRange(filings, parses) ==
    [defined |-> parses /\ \E i \in 1..Len(filings) : filings[i].date # <<>>]

\* the object extractFilingHistory returns for a non-empty list
FilingSection(filings, scraped, parses) ==
    [isNull |-> FALSE,
     filings |-> filings,
     totalFilings |-> Len(filings),
     pagesScraped |-> scraped,
     statistics |-> calculateFilingStatistics(filings),
     dateRange |-> calculateDateRange(filings, parses)]

\* the outer catch: "Filing history extraction failed"
FhFail(b) ==
    /\ fresult' = Null
    /\ fpc' = "caught"
    /\ browser' = b

\* navigateToSection("Filing history"), getTotalPageCount, the loop set-up
FhStart ==
    /\ fpc = "start"
    /\ \E script \in NavScripts("filing-history"), links \in PaginationLinks,
          countFails \in BOOLEAN :
          LET nav == navigateToSection(<<"Filing", " ", "history">>, browser, script)
          IN  IF nav.threw
              THEN /\ FhFail(nav.browser)
                   /\ UNCHANGED <<estimatedTotalPages, pageNum, allFilings, pagesScraped>>
              ELSE /\ browser' = nav.browser
                   /\ estimatedTotalPages' = getTotalPageCount(links, countFails)
                   /\ allFilings' = <<>>
                   /\ pagesScraped' = 0
                   /\ pageNum' = 1
                   /\ fpc' = IF 1 <= PagesToScan(estimatedTotalPages', maxPages)
                             THEN "page" ELSE "return"
                   /\ UNCHANGED fresult
    /\ UNCHANGED <<ovars, maxPages, fNavCalls, fShown, fYielded, fLog, xvars, nsection, npc, ntrace, tvars, svars>>

\* a loop that takes any page without records for the end of the list
StopsOnEmptyPage(pageFilings, currentPage, requested) == pageFilings = <<>>

\* the else branch of the loop body: break when no filing was extracted and
\* getCurrentFilingPage() is not the page asked for
StopsPagination(pageFilings, currentPage, requested) ==
    pageFilings = <<>> /\ currentPage # requested

\* One iteration of the page loop
FhPage ==
    /\ fpc = "page"
    /\ \E nenv \in IF pageNum > 1 THEN PageNavEnvs ELSE {[curFails |-> FALSE, linkPresent |-> TRUE,
                                                      arrives |-> TRUE, fails |-> FALSE]},
          sc \in PageScenarios, curFails \in BOOLEAN :
          LET nav == IF pageNum > 1 THEN navigateToFilingPage(pageNum, browser, nenv)
                     ELSE [threw |-> FALSE, browser |-> browser]
              pageFilings == extractWithMultipleStrategies(sc.page, sc.env)
              currentPage == getCurrentFilingPage(nav.browser, curFails)
              stop == StopsPagination(pageFilings, currentPage, pageNum)
          IN  /\ fNavCalls' = IF pageNum > 1 THEN fNavCalls + 1 ELSE fNavCalls
              /\ IF nav.threw
                 THEN /\ FhFail(nav.browser)
                      /\ UNCHANGED <<pageNum, allFilings, pagesScraped, fShown, fYielded, fLog>>
                 ELSE /\ browser' = nav.browser
                      /\ pagesScraped' = pagesScraped + 1
                      /\ fShown' = fShown \cup {nav.browser.shown}
                      /\ fYielded' = (fYielded \/ SomeStrategyYields(sc))
                      /\ allFilings' = allFilings \o pageFilings
                      /\ fLog' = Append(fLog,
                            [page |-> pageNum,
                             browser |-> nav.browser,
                             records |-> Len(pageFilings),
                             observed |-> IF pageFilings = <<>> THEN currentPage ELSE 0,
                             stopped |-> stop])
                      /\ pageNum' = IF stop THEN pageNum ELSE pageNum + 1
                      /\ fpc' = IF ~stop /\ pageNum + 1 <= PagesToScan(estimatedTotalPages, maxPages)
                                THEN "page" ELSE "return"
                      /\ UNCHANGED fresult
    /\ UNCHANGED <<ovars, maxPages, estimatedTotalPages, xvars, nsection, npc, ntrace, tvars, svars>>

\* after the loop: null, or the section with its statistics
FhReturn ==
    /\ fpc = "return"
    /\ \E parses \in BOOLEAN :
          fresult' = IF Len(allFilings) = 0 THEN Null
                     ELSE FilingSection(allFilings, pagesScraped, parses)
    /\ fpc' = "done"
    /\ UNCHANGED <<ovars, maxPages, estimatedTotalPages, pageNum, allFilings, pagesScraped,
                   fNavCalls, fShown, fYielded, fLog, xvars, nvars, tvars, svars>>

(***************************************************************************)
(* The statistics of the PDF bridge (pdf-bridge.js)                        *)
(***************************************************************************)
RECURSIVE CountDocuments(_)
CountDocuments(filings) ==
    IF filings = <<>> THEN 0
    ELSE Len(Head(filings).documentLinks) + CountDocuments(Tail(filings))

\* filing.type || 'Other'
BridgeType(filing) == IF filing.type = <<>> \/ filing.type = <<"">> THEN <<"Other">> ELSE filing.type

calculateStatistics(filings) ==
    IF Len(filings) = 0
    THEN [filingsWithDocuments |-> 0,
          documentSuccessRate |-> 0,
          totalDocuments |-> 0,
          totalDocumentPages |-> 0,
          filingTypes |-> <<>>]
    ELSE LET filingsWithDocs == SelectSeq(filings, LAMBDA f : Len(f.documentLinks) > 0)
             types == { BridgeType(filings[i]) : i \in 1..Len(filings) }
         IN [filingsWithDocuments |-> Len(filingsWithDocs),
             documentSuccessRate |-> IF Len(filings) > 0
                                     THEN RoundPercent(Len(filingsWithDocs), Len(filings))
                                     ELSE 0,
             totalDocuments |-> CountDocuments(filings),
             totalDocumentPages |-> TotalPages(filings),
             filingTypes |-> [t \in types |->
                                Cardinality({ i \in 1..Len(filings) :
                                                BridgeType(filings[i]) = t })]]

\* withDocs filings that carry a document link, then without that carry none
MakeFilings(withDocs, without) ==
    [i \in 1..(withDocs + without) |->
        IF i <= withDocs THEN LlmFiling(LlmFiled) ELSE LlmFiling(LlmNoLinks)]

CalcFilingStatistics ==
    /\ statsOut = <<>>
    /\ statsOut' = <<calculateFilingStatistics(statsIn)>>
    /\ UNCHANGED <<ovars, statsIn, bridgeOut, xvars, nvars, fvars, svars>>

BridgeCalcStatistics ==
    /\ bridgeOut = <<>>
    /\ bridgeOut' = <<calculateStatistics(statsIn)>>
    /\ UNCHANGED <<ovars, statsIn, statsOut, xvars, nvars, fvars, svars>>

(***************************************************************************)
(* Request validation (server.ts, Validator)                               *)
(***************************************************************************)
SuspiciousTokens == {"<script", "javascript:", "onload=", "<iframe", "data:"}

\* the company field of the body: a string, or a value of another type
\* (undefined when the field is missing, a number)
Text(s) == [type |-> "string", text |-> s]

Missing == [type |-> "undefined", text |-> <<>>]

FortyTwo == [type |-> "number", text |-> <<>>]

\* !company
Falsy(company) ==
    company.type = "undefined" \/ (company.type = "string" /\ company.text = <<>>)

\* a validator that only asks for a value
validatePresence(company) ==
    IF Falsy(company) THEN [valid |-> FALSE, error |-> "Company name is required"]
    ELSE [valid |-> TRUE, error |-> ""]

validateCompanyName(company) ==
    IF Falsy(company) THEN [valid |-> FALSE, error |-> "Company name is required"]
    ELSE IF company.type # "string"
    THEN [valid |-> FALSE, error |-> "Company name must be a string"]
    ELSE LET trimmed == Trim(company.text)
         IN  IF StringLength(trimmed) < 2
             THEN [valid |-> FALSE,
                   error |-> "Company name must be at least 2 characters long"]
             ELSE IF StringLength(trimmed) > 200
             THEN [valid |-> FALSE,
                   error |-> "Company name is too long (max 200 characters)"]
             ELSE IF \E i \in 1..Len(trimmed) : trimmed[i] \in SuspiciousTokens
             THEN [valid |-> FALSE, error |-> "Invalid characters in company name"]
             ELSE [valid |-> TRUE, error |-> ""]

Absent == [kind |-> "absent", n |-> 0]

Number(k) == [kind |-> "number", n |-> k]

\* the JSON null, and a string parseInt reads no number from
JsonNull == [kind |-> "null", n |-> 0]

NotANumber == [kind |-> "text", n |-> 0]

\* a validation that takes any number as it is
validateMaxPagesUnclamped(v) ==
    IF v.kind \in {"absent", "null"} THEN [valid |-> TRUE, value |-> 10]
    ELSE IF v.kind = "text" THEN [valid |-> FALSE, value |-> 10]
    ELSE [valid |-> TRUE, value |-> v.n]

\* v.kind: "absent" (undefined), "null", "text" (parseInt gives NaN), "number"
validateMaxPages(v) ==
    IF v.kind \in {"absent", "null"} THEN [valid |-> TRUE, value |-> 10]
    ELSE IF v.kind = "text" THEN [valid |-> FALSE, value |-> 10]
    ELSE IF v.n < 1 THEN [valid |-> FALSE, value |-> 1]
    ELSE IF v.n > 50 THEN [valid |-> FALSE, value |-> 50]
    ELSE [valid |-> TRUE, value |-> v.n]

\* maxPeoplePages || 5
OrFive(v) ==
    IF v.kind \in {"absent", "null"} \/ (v.kind = "number" /\ v.n = 0) THEN Number(5) ELSE v

(***************************************************************************)
(* ScraperUtils.retryOperation.  attempts[i] is <<>> when the i-th         *)
(* invocation of the operation succeeds, else the message of its error.    *)
(***************************************************************************)
\* a single invocation: the error of the first attempt is final
tryOnce(attempts, maxRetries, delay, operationName) ==
    [threw |-> attempts[1] # <<>>, calls |-> 1, waits |-> <<>>, attempts |-> attempts,
     message |-> attempts[1]]

\* waits: the delays slept so far, in milliseconds
RECURSIVE RetryFrom(_, _, _, _, _, _)
RetryFrom(attempt, attempts, maxRetries, delay, operationName, waits) ==
    IF attempt > maxRetries
    THEN [threw |-> TRUE, calls |-> maxRetries, waits |-> waits, attempts |-> attempts,
          message |-> <<"Max retries exceeded for ", operationName>>]
    ELSE IF attempts[attempt] = <<>>
    THEN [threw |-> FALSE, calls |-> attempt, waits |-> waits, attempts |-> attempts,
          message |-> <<>>]
    ELSE IF attempt = maxRetries
    THEN [threw |-> TRUE, calls |-> attempt, waits |-> waits, attempts |-> attempts,
          message |-> <<operationName, " failed after ", "3", " attempts: ">>
                      \o attempts[attempt]]
    ELSE RetryFrom(attempt + 1, attempts, maxRetries, delay, operationName,
                   Append(waits, delay * attempt))

retryOperation(attempts, maxRetries, delay, operationName) ==
    RetryFrom(1, attempts, maxRetries, delay, operationName, <<>>)

\* the default and the value both callers pass
MaxRetries == 3

\* the delay both callers pass, in milliseconds
RetryDelay == 2000

TimeoutError == <<"Navigation", " ", "timeout">>

NoResultsError == <<"Search", " ", "did", " ", "not", " ", "return", " ", "results">>

ActError == <<"Element", " ", "not", " ", "found">>

SearchEnvironments ==
    [goto : [1..MaxRetries -> {<<>>, TimeoutError}],
     submit : [1..MaxRetries -> {<<>>, NoResultsError}],
     clickFails : BOOLEAN]

\* the cookie banner step swallows its own error and is left out
searchCompany(env) ==
    LET first == retryOperation(env.goto, MaxRetries, RetryDelay, "Initial navigation")
        second == retryOperation(env.submit, MaxRetries, RetryDelay, "Company search")
    IN  IF first.threw
        THEN [threw |-> TRUE, message |-> first.message, retries |-> <<first>>]
        ELSE IF second.threw
        THEN [threw |-> TRUE, message |-> second.message, retries |-> <<first, second>>]
        ELSE IF env.clickFails
        THEN [threw |-> TRUE, message |-> ActError, retries |-> <<first, second>>]
        ELSE [threw |-> FALSE, message |-> <<>>, retries |-> <<first, second>>]

(***************************************************************************)
(* The sections other than the filing history                              *)
(***************************************************************************)
OverviewFull ==
    [isNull |-> FALSE, companyName |-> <<"ACME", " ", "LTD">>,
     companyNumber |-> <<"01234567">>, status |-> <<"Active">>,
     incorporationDate |-> DateUK]

\* the schema's strings may be empty, its optional fields missing
OverviewBare ==
    [isNull |-> FALSE, companyName |-> <<>>, companyNumber |-> <<>>,
     status |-> <<"Active">>, incorporationDate |-> <<>>]

\* page.extract answers, or rejects (fails)
OverviewEnvs == [fails : BOOLEAN, answer : {OverviewFull, OverviewBare}]

\* no phase lets an error out: threw is FALSE on every path
extractOverview(env) ==
    IF env.fails THEN [threw |-> FALSE, value |-> Null, outcome |-> "error"]
    ELSE [threw |-> FALSE, value |-> env.answer, outcome |-> "data"]

OfficerActive == [name |-> <<"Jane">>, resignationDate |-> <<>>, links |-> <<>>]

OfficerResigned == [name |-> <<"John">>, resignationDate |-> DateUK, links |-> <<>>]

PageNav(arrives, fails) ==
    [curFails |-> FALSE, linkPresent |-> TRUE, arrives |-> arrives, fails |-> fails]

\* one page of the officers list: how its navigation goes and what
\* PeopleExtractor returns on it
PeoplePageEnvs ==
    { [nav |-> PageNav(TRUE, FALSE), officers |-> <<OfficerActive, OfficerResigned>>,
       curFails |-> FALSE],
      [nav |-> PageNav(TRUE, FALSE), officers |-> <<>>, curFails |-> FALSE],
      [nav |-> PageNav(FALSE, FALSE), officers |-> <<>>, curFails |-> FALSE],
      [nav |-> PageNav(FALSE, TRUE), officers |-> <<>>, curFails |-> FALSE] }

getPeopleTotalPageCount(links, fails) == IF fails THEN 1 ELSE MaxOf(links \cup {1})

getCurrentPeoplePage(b, fails) ==
    IF fails THEN 1
    ELSE IF b.query # 0 THEN b.query
    ELSE IF b.active # 0 THEN b.active
    ELSE 1

navigateToPeoplePage(pageNumber, b, env) ==
    IF getCurrentPeoplePage(b, env.curFails) = pageNumber
    THEN [threw |-> FALSE, browser |-> b]
    ELSE IF env.fails THEN [threw |-> TRUE, browser |-> b]
    ELSE IF env.linkPresent
    THEN [threw |-> FALSE, browser |-> IF env.arrives THEN AtPage(b, pageNumber) ELSE b]
    ELSE [threw |-> FALSE,
          browser |-> IF env.arrives THEN AtPage(b, pageNumber) ELSE FirstPage(b)]

\* the page loop of extractPeople from page pageNum_ on; PeoplePage is the
\* iteration once its page navigation (nav) has been attempted
RECURSIVE PeopleLoop(_, _, _, _, _, _)
\* an iteration that takes any page without officers for the end of the list
PeoplePageStopsOnEmpty(nav, pageNum_, pagesToScan, envs, allOfficers, scraped) ==
    IF nav.threw
    THEN [threw |-> TRUE, officers |-> allOfficers, pagesScraped |-> scraped,
          browser |-> nav.browser]
    ELSE IF envs[pageNum_].officers = <<>>
    THEN [threw |-> FALSE, officers |-> allOfficers,
          pagesScraped |-> scraped + 1, browser |-> nav.browser]
    ELSE PeopleLoop(pageNum_ + 1, pagesToScan, nav.browser, envs,
                    allOfficers \o envs[pageNum_].officers, scraped + 1)

PeoplePage(nav, pageNum_, pagesToScan, envs, allOfficers, scraped) ==
    IF nav.threw
    THEN [threw |-> TRUE, officers |-> allOfficers, pagesScraped |-> scraped,
          browser |-> nav.browser]
    ELSE IF envs[pageNum_].officers = <<>>
            /\ getCurrentPeoplePage(nav.browser, envs[pageNum_].curFails) # pageNum_
    THEN [threw |-> FALSE, officers |-> allOfficers,
          pagesScraped |-> scraped + 1, browser |-> nav.browser]
    ELSE PeopleLoop(pageNum_ + 1, pagesToScan, nav.browser, envs,
                    allOfficers \o envs[pageNum_].officers, scraped + 1)

PeopleLoop(pageNum_, pagesToScan, b, envs, allOfficers, scraped) ==
    IF pageNum_ > pagesToScan
    THEN [threw |-> FALSE, officers |-> allOfficers, pagesScraped |-> scraped, browser |-> b]
    ELSE PeoplePage(IF pageNum_ > 1 THEN navigateToPeoplePage(pageNum_, b, envs[pageNum_].nav)
                    ELSE [threw |-> FALSE, browser |-> b],
                    pageNum_, pagesToScan, envs, allOfficers, scraped)

PeopleEnvs ==
    [script : NavScripts("officers"),
     links : { 1..n : n \in 1..MaxPeopleTotal },
     countFails : {FALSE},
     pages : [1..MaxPeopleTotal -> PeoplePageEnvs]]

\* a PeopleData object that takes every officer for an active one
PeopleSectionAllActive(officers, scraped) ==
    [isNull |-> FALSE,
     officers |-> officers,
     totalOfficers |-> Len(officers),
     pagesScraped |-> scraped,
     activeOfficers |-> Len(officers),
     resignedOfficers |-> 0]

\* the PeopleData object of extractPeople
PeopleSection(officers, scraped) ==
    [isNull |-> FALSE,
     officers |-> officers,
     totalOfficers |-> Len(officers),
     pagesScraped |-> scraped,
     activeOfficers |-> Len(SelectSeq(officers, LAMBDA o : o.resignationDate = <<>>)),
     resignedOfficers |-> Len(SelectSeq(officers, LAMBDA o : o.resignationDate # <<>>))]

\* what extractPeople returns once its loop has ended as `loop`
PeopleData(loop) ==
    IF loop.threw
    THEN [threw |-> FALSE, value |-> Null, outcome |-> "error", browser |-> loop.browser]
    ELSE IF Len(loop.officers) = 0
    THEN [threw |-> FALSE, value |-> Null, outcome |-> "empty", browser |-> loop.browser]
    ELSE [threw |-> FALSE, value |-> PeopleSection(loop.officers, loop.pagesScraped),
          outcome |-> "data", browser |-> loop.browser]

\* extractPeople once navigateToSection("People") has ended as `nav`
PeopleAfterNavigation(nav, limit, env) ==
    IF nav.threw
    THEN [threw |-> FALSE, value |-> Null, outcome |-> "error", browser |-> nav.browser]
    ELSE PeopleData(PeopleLoop(1, Min(getPeopleTotalPageCount(env.links, env.countFails), limit),
                               nav.browser, env.pages, <<>>, 0))

extractPeople(limit, b, env) ==
    PeopleAfterNavigation(navigateToSection(<<"People">>, b, env.script), limit, env)

Charge == [description |-> <<"Debenture">>, status |-> <<"Outstanding">>]

ChargesEnvs ==
    [script : NavScripts("charges"), fails : BOOLEAN, charges : {<<>>, <<Charge>>}]

\* extractCharges once navigateToSection("Charges") has ended as `nav`,
\* in a variant without the try/catch
ChargesUncaught(nav, env) ==
    IF nav.threw \/ env.fails
    THEN [threw |-> TRUE, value |-> Null, outcome |-> "error", browser |-> nav.browser]
    ELSE [threw |-> FALSE, value |-> [isNull |-> FALSE, charges |-> env.charges],
          outcome |-> "data", browser |-> nav.browser]

\* extractCharges once navigateToSection("Charges") has ended as `nav`
ChargesAfterNavigation(nav, env) ==
    IF nav.threw \/ env.fails
    THEN [threw |-> FALSE, value |-> Null, outcome |-> "error", browser |-> nav.browser]
    ELSE [threw |-> FALSE, value |-> [isNull |-> FALSE, charges |-> env.charges],
          outcome |-> "data", browser |-> nav.browser]

extractCharges(b, env) ==
    ChargesAfterNavigation(navigateToSection(<<"Charges">>, b, env.script), env)

(***************************************************************************)
(* calculateQualityScore                                                   *)
(***************************************************************************)
HasFilings(r) == ~r.filing.isNull /\ Len(r.filing.filings) > 0

HasOfficers(r) == ~r.people.isNull /\ Len(r.people.officers) > 0

\* rate points that forget the top tier
RatePointsNoTop(docSuccessRate) ==
    IF docSuccessRate > 50 THEN 10
    ELSE IF docSuccessRate > 20 THEN 5
    ELSE 0

\* the points for the documentSuccessRate of a non-empty filing section
RatePoints(docSuccessRate) ==
    IF docSuccessRate > 80 THEN 15
    ELSE IF docSuccessRate > 50 THEN 10
    ELSE IF docSuccessRate > 20 THEN 5
    ELSE 0

Clamp(score) == IF score < 0 THEN 0 ELSE IF score > 100 THEN 100 ELSE score

\* a scoring that gives every present section 30 points and does not clamp
calculateQualityScoreFlat(r) ==
    [score |-> 30 * Cardinality({ k \in {"overview", "filing", "people", "charges"} :
                                    ~r[k].isNull }),
     issues |-> <<>>]

calculateQualityScore(r) ==
    LET overviewIssues ==
            IF ~r.overview.isNull
            THEN (IF r.overview.companyName = <<>> THEN <<"Missing company name">> ELSE <<>>)
                 \o (IF r.overview.companyNumber = <<>>
                     THEN <<"Missing company number">> ELSE <<>>)
            ELSE <<"No company overview extracted">>
        docSuccessRate == r.filing.statistics.documentSuccessRate
        filingIssues ==
            IF HasFilings(r)
            THEN (IF docSuccessRate > 20 THEN <<>>
                  ELSE <<"Low PDF document extraction rate">>)
                 \o (IF Len(r.filing.filings) < 3
                     THEN <<"Very limited filing history">> ELSE <<>>)
            ELSE <<"No filing history extracted">>
        peopleIssues ==
            IF HasOfficers(r) THEN <<>> ELSE <<"No officer information extracted">>
        chargesIssues ==
            IF ~r.charges.isNull THEN <<>> ELSE <<"No charges information extracted">>
        score == (IF ~r.overview.isNull THEN 25 ELSE 0)
                 + (IF HasFilings(r) THEN 25 + RatePoints(docSuccessRate) ELSE 0)
                 + (IF HasOfficers(r) THEN 20 ELSE 0)
                 + (IF ~r.charges.isNull THEN 15 ELSE 0)
    IN  [score |-> Clamp(score),
         issues |-> overviewIssues \o filingIssues \o peopleIssues \o chargesIssues]

(***************************************************************************)
(* server.ts: QualityAssessor.assessDataQuality, ErrorHandler              *)
(***************************************************************************)
IsDocumentUrl(url) ==
    \E i \in 1..Len(url) : url[i] \in {"document?format=pdf", "document?format=xhtml"}

\* filings with a link whose url is empty or is no document url
InvalidPDFLinks(filings) ==
    Cardinality({ i \in 1..Len(filings) :
        /\ Len(filings[i].documentLinks) > 0
        /\ \E k \in 1..Len(filings[i].documentLinks) :
              ~IsDocumentUrl(filings[i].documentLinks[k].url) })

\* stale: the latest filing date is more than a year before the request
assessDataQuality(data, stale) ==
    LET overviewPart ==
            IF data.overview.isNull THEN 0 - 30
            ELSE (IF data.overview.companyName = <<>> THEN 0 - 10 ELSE 0)
                 + (IF data.overview.companyNumber = <<>> THEN 0 - 10 ELSE 0)
                 + (IF data.overview.status = <<>> THEN 0 - 5 ELSE 0)
                 + (IF data.overview.incorporationDate = <<>> THEN 0 - 5 ELSE 0)
        filingData == data.filing
        docSuccessRate == filingData.statistics.documentSuccessRate
        beforeBonus ==
            100 + overviewPart
            + (IF filingData.totalFilings < 3 THEN 0 - 10
               ELSE IF filingData.totalFilings > 50 THEN 5 ELSE 0)
            + (IF docSuccessRate = 0 THEN 0 - 20
               ELSE IF docSuccessRate < 30 THEN 0 - 10
               ELSE IF docSuccessRate > 80 THEN 5 ELSE 0)
            + (IF InvalidPDFLinks(filingData.filings) > 0 THEN 0 - 5 ELSE 0)
            + (IF filingData.dateRange.defined /\ stale THEN 0 - 5 ELSE 0)
        afterFilings ==
            IF ~HasFilings(data) THEN 100 + overviewPart - 40
            ELSE IF filingData.pagesScraped > 1
            THEN Min(100, beforeBonus + Min(5, filingData.pagesScraped))
            ELSE beforeBonus
        peoplePart ==
            IF ~HasOfficers(data) THEN 0 - 20
            ELSE IF Len(data.people.officers) > 5 THEN 2 ELSE 0
        chargesPart == IF data.charges.isNull THEN 0 - 10 ELSE 0
    IN  [score |-> Clamp(afterFilings + peoplePart + chargesPart)]

SummaryThreshold == 40

\* a gate that always asks for the narrative
AlwaysSufficient(score) == TRUE

\* if (qualityAssessment.score >= 40)
QualitySufficient(score) == score >= SummaryThreshold

\* llmSummary: the narrative, or one of the two messages followed by the
\* quality report
SummaryText(score, summaryFails) ==
    IF QualitySufficient(score)
    THEN IF summaryFails THEN "AI summary generation failed" ELSE "narrative"
    ELSE "Data quality insufficient for AI analysis"

MessageHas(message, phrase) == Includes(ToLowerCase(message), phrase)

handleScrapingError(message) ==
    IF MessageHas(message, <<"no", " ", "companies", " ", "found">>)
       \/ MessageHas(message, <<"not", " ", "found">>)
    THEN [statusCode |-> 404, errorCode |-> "COMPANY_NOT_FOUND"]
    ELSE IF MessageHas(message, <<"timeout">>) \/ MessageHas(message, <<"network">>)
    THEN [statusCode |-> 502, errorCode |-> "NETWORK_ERROR"]
    ELSE IF MessageHas(message, <<"rate", " ", "limit">>)
            \/ MessageHas(message, <<"too", " ", "many", " ", "requests">>)
    THEN [statusCode |-> 429, errorCode |-> "RATE_LIMIT"]
    ELSE IF MessageHas(message, <<"scraping", " ", "failed">>)
    THEN [statusCode |-> 502, errorCode |-> "EXTRACTION_ERROR"]
    ELSE IF MessageHas(message, <<"pdf">>) \/ MessageHas(message, <<"document", " ", "links">>)
    THEN [statusCode |-> 500, errorCode |-> "PDF_EXTRACTION_ERROR"]
    ELSE IF MessageHas(message, <<"pagination">>) \/ MessageHas(message, <<"next", " ", "page">>)
    THEN [statusCode |-> 500, errorCode |-> "PAGINATION_ERROR"]
    ELSE [statusCode |-> 500, errorCode |-> "INTERNAL_ERROR"]

(***************************************************************************)
(* POST /api/enhanced-report, runEnhancedCompaniesScraper, scrapeCompany   *)
(***************************************************************************)
NoError == [threw |-> FALSE, message |-> <<>>]

NoResponse == [sent |-> FALSE, status |-> 0, success |-> FALSE, code |-> "",
               score |-> 0, summaryCalled |-> FALSE, llm_summary |-> "", saved |-> FALSE]

\* the ScrapingResult scrapeCompany starts from: no section set
EmptyResult ==
    [overview |-> Null, filing |-> Null, people |-> Null, charges |-> Null,
     qualityScore |-> 0, dataIssues |-> <<>>]

Ran(phase, outcome) == [phase |-> phase, outcome |-> outcome]

\* scrapeCompany's catch: the error becomes an issue and the result is returned
ScrapeCatch(phase, message) ==
    /\ result' = [result EXCEPT !.qualityScore = 0,
                                !.dataIssues = Append(@, <<"Scraping failed: ">> \o message)]
    /\ phases' = Append(phases, Ran(phase, "threw"))
    /\ spc' = "close"

\* the handler up to its call of runEnhancedCompaniesScraper
PostEnhancedReport ==
    /\ spc = "request"
    /\ LET pagesValidation == validateMaxPages(request.maxPages)
           peopleValidation == validateMaxPages(OrFive(request.maxPeoplePages))
           validation == validateCompanyName(request.company)
       IN  IF ~validation.valid
           THEN /\ response' = [NoResponse EXCEPT !.sent = TRUE, !.status = 400,
                                                  !.code = "VALIDATION_ERROR"]
                /\ spc' = "responded"
                /\ UNCHANGED <<maxPages, maxPeoplePages>>
           ELSE /\ maxPages' = pagesValidation.value
                /\ maxPeoplePages' = peopleValidation.value
                /\ spc' = "initialize"
                /\ UNCHANGED response
    /\ UNCHANGED <<ovars, request, retries, result, pending, phases, closes, xvars, nvars, tvars,
                   fpc, estimatedTotalPages, pageNum, allFilings, pagesScraped,
                   fresult, fNavCalls, fShown, fYielded, fLog>>

InitErrors ==
    { <<"Browser", " ", "launch", " ", "timeout">>,
      <<"Executable", " ", "not", " ", "found">>,
      <<"spawn", " ", "failed">> }

\* scraper.initialize(), outside scrapeCompany's try
Initialize ==
    /\ spc = "initialize"
    /\ \/ /\ \E message \in InitErrors : pending' = [threw |-> TRUE, message |-> message]
          /\ spc' = "close"
          /\ UNCHANGED result
       \/ /\ result' = EmptyResult
          /\ spc' = "search"
          /\ UNCHANGED pending
    /\ UNCHANGED <<ovars, request, retries, maxPeoplePages, phases, closes, response,
                   xvars, nvars, fvars, tvars>>

ScrapeSearch ==
    /\ spc = "search"
    /\ \E env \in SearchEnvironments :
          LET out == searchCompany(env)
          IN  /\ retries' = out.retries
              /\ IF out.threw
                 THEN /\ ScrapeCatch("search", out.message)
                      /\ UNCHANGED browser
                 ELSE /\ browser' = Landed("overview")
                      /\ phases' = Append(phases, Ran("search", "data"))
                      /\ spc' = "overview"
                      /\ UNCHANGED result
    /\ UNCHANGED <<ovars, request, maxPeoplePages, pending, closes, response,
                   xvars, nsection, npc, ntrace, fvars, tvars>>

\* result.overview = await this.extractOverview(); extractFilingHistory is entered
ScrapeOverview ==
    /\ spc = "overview"
    /\ \E env \in OverviewEnvs :
          LET out == extractOverview(env)
          IN  IF out.threw
              THEN /\ ScrapeCatch("overview", <<"overview">>)
                   /\ UNCHANGED fpc
              ELSE /\ result' = [result EXCEPT !.overview = out.value]
                   /\ phases' = Append(phases, Ran("overview", out.outcome))
                   /\ spc' = "filing"
                   /\ fpc' = "start"
    /\ retries' = <<>>
    /\ UNCHANGED <<ovars, request, maxPeoplePages, pending, closes, response,
                   xvars, nvars, tvars, maxPages, estimatedTotalPages, pageNum,
                   allFilings, pagesScraped, fresult, fNavCalls, fShown, fYielded, fLog>>

FilingOutcome ==
    IF fpc = "caught" THEN "error" ELSE IF fresult.isNull THEN "empty" ELSE "data"

\* result.filing = (what extractFilingHistory returned); the locals of the
\* call are gone
ScrapeFiling ==
    /\ spc = "filing"
    /\ fpc \in {"done", "caught"}
    /\ result' = [result EXCEPT !.filing = fresult]
    /\ phases' = Append(phases, Ran("filing", FilingOutcome))
    /\ spc' = "people"
    /\ fpc' = "idle"
    /\ estimatedTotalPages' = 0
    /\ pageNum' = 0
    /\ allFilings' = <<>>
    /\ fresult' = Null
    /\ fNavCalls' = 0
    /\ fShown' = {}
    /\ fLog' = <<>>
    /\ UNCHANGED <<ovars, request, retries, maxPeoplePages, pending, closes, response,
                   xvars, nvars, tvars, maxPages, pagesScraped, fYielded>>

\* a phase has ended as `out`: its section is assigned, or its error caught
Assign(phase, out, next) ==
    /\ browser' = out.browser
    /\ IF out.threw
       THEN ScrapeCatch(phase, <<phase>>)
       ELSE /\ result' = [result EXCEPT ![phase] = out.value]
            /\ phases' = Append(phases, Ran(phase, out.outcome))
            /\ spc' = next

ScrapePeople ==
    /\ spc = "people"
    /\ \E env \in PeopleEnvs :
          Assign("people", extractPeople(maxPeoplePages, browser, env), "charges")
    /\ UNCHANGED <<ovars, request, retries, maxPeoplePages, pending, closes, response,
                   xvars, nsection, npc, ntrace, fvars, tvars>>

ScrapeCharges ==
    /\ spc = "charges"
    /\ \E env \in ChargesEnvs :
          Assign("charges", extractCharges(browser, env), "quality")
    /\ UNCHANGED <<ovars, request, retries, maxPeoplePages, pending, closes, response,
                   xvars, nsection, npc, ntrace, fvars, tvars>>

\* result.qualityScore = this.calculateQualityScore(result); return result
ScrapeQuality ==
    /\ spc = "quality"
    /\ LET quality == calculateQualityScore(result)
       IN  result' = [result EXCEPT !.qualityScore = quality.score,
                                    !.dataIssues = quality.issues]
    /\ phases' = Append(phases, Ran("quality", "data"))
    /\ spc' = "close"
    /\ UNCHANGED <<ovars, request, retries, maxPeoplePages, pending, closes, response,
                   xvars, nvars, fvars, tvars>>

\* finally { await scraper.close() }: close swallows its own error
Close ==
    /\ spc = "close"
    /\ closes' = closes + 1
    /\ spc' = "respond"
    /\ UNCHANGED <<ovars, request, retries, maxPeoplePages, result, pending, phases, response,
                   xvars, nvars, fvars, tvars>>

\* the rest of the handler: its catch, or assessment, summary and answer
Respond ==
    /\ spc = "respond"
    /\ IF pending.threw
       THEN LET errorInfo == handleScrapingError(pending.message)
            IN  response' = [NoResponse EXCEPT !.sent = TRUE,
                                               !.status = errorInfo.statusCode,
                                               !.code = errorInfo.errorCode]
       ELSE \E stale \in BOOLEAN, summaryFails \in BOOLEAN, stored \in BOOLEAN :
               LET qualityAssessment == assessDataQuality(result, stale)
               IN  response' = [sent |-> TRUE, status |-> 200, success |-> TRUE,
                                code |-> "",
                                score |-> qualityAssessment.score,
                                summaryCalled |-> QualitySufficient(qualityAssessment.score),
                                llm_summary |->
                                    SummaryText(qualityAssessment.score, summaryFails),
                                \* databaseService.isAvailable() and saveReport resolves
                                saved |-> stored]
    /\ spc' = "responded"
    /\ UNCHANGED <<ovars, request, retries, maxPeoplePages, result, pending, phases, closes,
                   xvars, nvars, fvars, tvars>>

(***************************************************************************)
(* Concurrent report requests.  server.ts imports runEnhancedCompaniesScraper  *)
(* from './scraper.js'; the repository holds two implementations, the       *)
(* CompaniesHouseScraper class of scraper.ts and the function of scraper.js *)
(* that extracts filings through pdf-bridge.js and fixed-pdf-extractor.js.  *)
(* Objects created by `new` or by an object literal get a fresh handle;     *)
(* touched records which requests have used each object and each file.      *)
(***************************************************************************)
Requests == {1, 2}

Implementations == {"scraper.ts", "scraper.js"}

\* page.screenshot({ path: 'filing-history-screenshot.png' })
ScreenshotPath == "filing-history-screenshot.png"

FilePaths == {ScreenshotPath}

\* failed: an error is on its way to the caller; closes: calls of close();
\* outcome: how runEnhancedCompaniesScraper ended; closeError: the error it
\* ended with was raised by close()
NotStarted ==
    [pc |-> "new", session |-> 0, page |-> 0, result |-> 0,
     failed |-> FALSE, closes |-> 0, outcome |-> "none", closeError |-> FALSE]

\* request r uses the objects with the handles hs
Use(objects, hs, r) ==
    [h \in 1..Len(objects) |-> IF h \in hs THEN objects[h] \cup {r} ELSE objects[h]]

\* new CompaniesHouseScraper() / new Stagehand(stagehandOptions)
ReqNew(r) ==
    /\ rpc[r].pc = "new"
    /\ touched' = [touched EXCEPT !.objects = Append(@, {r})]
    /\ rpc' = [rpc EXCEPT ![r].session = Len(touched.objects) + 1, ![r].pc = "initialize"]
    /\ UNCHANGED <<resolved, cvars, xvars, nvars, fvars, tvars, svars>>

\* await stagehand.init(); page = stagehand.page.  scraper.ts calls it inside
\* the try whose finally closes; scraper.js calls it before its try, so a
\* rejection leaves the function at once.
ReqInitialize(r) ==
    /\ rpc[r].pc = "initialize"
    /\ \E fails \in BOOLEAN :
          IF ~fails
          THEN /\ touched' = [touched EXCEPT
                                 !.objects = Append(Use(@, {rpc[r].session}, r), {r})]
               /\ rpc' = [rpc EXCEPT ![r].page = Len(touched.objects) + 1,
                                     ![r].pc = "search"]
          ELSE /\ touched' = [touched EXCEPT !.objects = Use(@, {rpc[r].session}, r)]
               /\ rpc' = IF resolved = "scraper.js"
                         THEN [rpc EXCEPT ![r].pc = "done", ![r].outcome = "threw"]
                         ELSE [rpc EXCEPT ![r].pc = "close", ![r].failed = TRUE]
    /\ UNCHANGED <<resolved, cvars, xvars, nvars, fvars, tvars, svars>>

\* the result object is created and the company is searched on the page.  A
\* failed search ends the run: scrapeCompany's catch returns the result,
\* scraper.js's catch rethrows.
ReqSearch(r) ==
    /\ rpc[r].pc = "search"
    /\ touched' = [touched EXCEPT !.objects = Append(Use(@, {rpc[r].page}, r), {r})]
    /\ \E fails \in BOOLEAN :
          rpc' = [rpc EXCEPT ![r].result = Len(touched.objects) + 1,
                             ![r].pc = IF fails THEN "close" ELSE "overview",
                             ![r].failed = fails /\ resolved = "scraper.js"]
    /\ UNCHANGED <<resolved, cvars, xvars, nvars, fvars, tvars, svars>>

\* where a section's failure leads: scraper.ts's phases catch their errors
\* and the run goes on; in scraper.js the error reaches the catch that
\* rethrows it
AfterSection(r, fails, next) ==
    IF fails /\ resolved = "scraper.js"
    THEN [rpc EXCEPT ![r].pc = "close", ![r].failed = TRUE]
    ELSE [rpc EXCEPT ![r].pc = next]

\* overview, people, charges: read from the page, stored in the result
ReqSection(r) ==
    /\ rpc[r].pc \in {"overview", "people", "charges"}
    /\ touched' = [touched EXCEPT !.objects = Use(@, {rpc[r].page, rpc[r].result}, r)]
    /\ \E fails \in BOOLEAN :
          rpc' = AfterSection(r, fails,
                              CASE rpc[r].pc = "overview" -> "filing"
                                [] rpc[r].pc = "people" -> "charges"
                                [] rpc[r].pc = "charges" -> "close")
    /\ UNCHANGED <<resolved, cvars, xvars, nvars, fvars, tvars, svars>>

\* the filing history: extractFilingHistory in scraper.ts; in scraper.js
\* extractPDFLinks, whose extractWithDirectDOM first saves a screenshot
ReqFiling(r) ==
    /\ rpc[r].pc = "filing"
    /\ touched' =
          [objects |-> Use(touched.objects, {rpc[r].page, rpc[r].result}, r),
           files |-> IF resolved = "scraper.js"
                     THEN [touched.files EXCEPT ![ScreenshotPath] = @ \cup {r}]
                     ELSE touched.files]
    /\ \E fails \in BOOLEAN : rpc' = AfterSection(r, fails, "people")
    /\ UNCHANGED <<resolved, cvars, xvars, nvars, fvars, tvars, svars>>

\* finally: scraper.close(), which catches the error of stagehand.close(), in
\* scraper.ts; a bare await stagehand.close() in scraper.js, whose rejection
\* replaces the function's result
ReqClose(r) ==
    /\ rpc[r].pc = "close"
    /\ touched' = [touched EXCEPT !.objects = Use(@, {rpc[r].session}, r)]
    /\ \E closeFails \in BOOLEAN :
          LET propagates == closeFails /\ resolved = "scraper.js"
          IN  rpc' = [rpc EXCEPT ![r].pc = "done",
                                 ![r].closes = @ + 1,
                                 ![r].closeError = propagates,
                                 ![r].outcome = IF propagates \/ rpc[r].failed
                                                THEN "threw" ELSE "returned"]
    /\ UNCHANGED <<resolved, cvars, xvars, nvars, fvars, tvars, svars>>

(***************************************************************************)
(* Specifications.  Each runs one component from its entry; the variables  *)
(* of the other components stay parked.                                    *)
(***************************************************************************)
NavParked ==
    /\ browser = Landed("overview")
    /\ nsection = <<>>
    /\ npc = "idle"
    /\ ntrace = <<>>

ExtractParked ==
    /\ dom = NoTable
    /\ xpc = "idle"
    /\ xouts = <<>>
    /\ xresult = <<>>

PagingParked ==
    /\ fpc = "idle"
    /\ maxPages = 0
    /\ estimatedTotalPages = 0
    /\ pageNum = 0
    /\ allFilings = <<>>
    /\ pagesScraped = 0
    /\ fresult = Null
    /\ fNavCalls = 0
    /\ fShown = {}
    /\ fYielded = FALSE
    /\ fLog = <<>>

StatsParked ==
    /\ statsIn = <<>>
    /\ statsOut = <<>>
    /\ bridgeOut = <<>>

ScrapeParked ==
    /\ request = [company |-> Missing, maxPages |-> Absent, maxPeoplePages |-> Absent]
    /\ spc = "idle"
    /\ maxPeoplePages = 0
    /\ result = EmptyResult
    /\ pending = NoError
    /\ phases = <<>>
    /\ closes = 0
    /\ response = NoResponse
    /\ retries = <<>>

CategorizeParked ==
    /\ catIn = <<>>
    /\ catOut = <<>>

ConcurrentParked ==
    /\ resolved = "none"
    /\ rpc = <<>>
    /\ touched = <<>>

NavInit ==
    /\ browser \in { Landed(k) : k \in PageKeys }
    /\ nsection \in SectionNames
    /\ npc = "clickTabLink"
    /\ ntrace = <<>>
    /\ ExtractParked
    /\ PagingParked
    /\ StatsParked
    /\ ScrapeParked
    /\ CategorizeParked
    /\ ConcurrentParked

NavNext == NavClickTabLink \/ NavDirectURL \/ NavSearchAndClick

SpecNav == NavInit /\ [][NavNext]_vars

ExtractInit ==
    /\ dom \in Doms
    /\ xpc = "Direct DOM"
    /\ xouts = <<>>
    /\ xresult = <<>>
    /\ NavParked
    /\ PagingParked
    /\ StatsParked
    /\ ScrapeParked
    /\ CategorizeParked
    /\ ConcurrentParked

ExtractNext == RunDirectDOM \/ RunLLM \/ RunHybrid

SpecExtract == ExtractInit /\ [][ExtractNext]_vars

PagingInit ==
    /\ fpc = "start"
    /\ maxPages \in 1..MaxPagesArg
    /\ estimatedTotalPages = 0
    /\ pageNum = 0
    /\ allFilings = <<>>
    /\ pagesScraped = 0
    /\ fresult = Null
    /\ fNavCalls = 0
    /\ fShown = {}
    /\ fYielded = FALSE
    /\ fLog = <<>>
    /\ browser \in {Landed("overview"), Landed("search")}
    /\ nsection = <<>>
    /\ npc = "idle"
    /\ ntrace = <<>>
    /\ ExtractParked
    /\ StatsParked
    /\ ScrapeParked
    /\ CategorizeParked
    /\ ConcurrentParked

PagingNext == FhStart \/ FhPage \/ FhReturn

SpecPaging == PagingInit /\ [][PagingNext]_vars

StatsInit ==
    /\ \E withDocs \in 0..MaxFilings, without \in 0..MaxFilings :
          /\ withDocs + without <= MaxFilings
          /\ statsIn = MakeFilings(withDocs, without)
    /\ statsOut = <<>>
    /\ bridgeOut = <<>>
    /\ NavParked
    /\ ExtractParked
    /\ PagingParked
    /\ ScrapeParked
    /\ CategorizeParked
    /\ ConcurrentParked

StatsNext == CalcFilingStatistics \/ BridgeCalcStatistics

SpecStats == StatsInit /\ [][StatsNext]_vars

CompanySamples ==
    { Missing, FortyTwo, Text(<<>>), Text(<<" ", "A", " ">>), Text(<<"ACME", " ", "LTD">>),
      Text(<<"<script">>), Text(<<"ACME", " ", LongWord>>) }

ScrapeInit ==
    /\ request \in [company : CompanySamples,
                    maxPages : { Number(k) : k \in 0..MaxScrapePages },
                    maxPeoplePages : {Absent, Number(1)}]
    /\ spc = "request"
    /\ maxPeoplePages = 0
    /\ result = EmptyResult
    /\ pending = NoError
    /\ phases = <<>>
    /\ closes = 0
    /\ response = NoResponse
    /\ retries = <<>>
    /\ NavParked
    /\ ExtractParked
    /\ PagingParked
    /\ StatsParked
    /\ CategorizeParked
    /\ ConcurrentParked

ScrapeNext ==
    \/ PostEnhancedReport
    \/ Initialize
    \/ ScrapeSearch
    \/ ScrapeOverview
    \/ FhStart
    \/ FhPage
    \/ FhReturn
    \/ ScrapeFiling
    \/ ScrapePeople
    \/ ScrapeCharges
    \/ ScrapeQuality
    \/ Close
    \/ Respond

SpecScrape == ScrapeInit /\ [][ScrapeNext]_vars

\* the values a page limit can have in the request body
LimitValues == {Absent, JsonNull, NotANumber} \cup { Number(k) : k \in (0 - 2)..MaxLimitArg }

\* the handler alone, up to the call of the scraper, on every pair of limits
RequestInit ==
    /\ request \in [company : {Text(<<"ACME", " ", "LTD">>), Text(<<" ", "A", " ">>)},
                    maxPages : LimitValues,
                    maxPeoplePages : LimitValues]
    /\ spc = "request"
    /\ maxPeoplePages = 0
    /\ result = EmptyResult
    /\ pending = NoError
    /\ phases = <<>>
    /\ closes = 0
    /\ response = NoResponse
    /\ retries = <<>>
    /\ NavParked
    /\ ExtractParked
    /\ PagingParked
    /\ StatsParked
    /\ CategorizeParked
    /\ ConcurrentParked

RequestNext == PostEnhancedReport

SpecRequest == RequestInit /\ [][RequestNext]_vars

\* every combination of section outcomes, at the call of calculateQualityScore
QualityInit ==
    /\ \E overview \in {"null", "full", "bare"},
          withDocs \in 0..MaxScoredFilings, without \in 0..MaxScoredFilings,
          people \in {"null", "empty", "some"},
          charges \in {"null", "empty", "some"} :
          /\ withDocs + without <= MaxScoredFilings
          /\ result =
                [overview |-> CASE overview = "null" -> Null
                                [] overview = "full" -> OverviewFull
                                [] overview = "bare" -> OverviewBare,
                 filing |-> IF withDocs + without = 0 THEN Null
                            ELSE FilingSection(MakeFilings(withDocs, without), 1, TRUE),
                 people |-> CASE people = "null" -> Null
                              [] people = "empty" -> PeopleSection(<<>>, 1)
                              [] people = "some" -> PeopleSection(<<OfficerActive>>, 1),
                 charges |-> CASE charges = "null" -> Null
                               [] charges = "empty" -> [isNull |-> FALSE, charges |-> <<>>]
                               [] charges = "some" -> [isNull |-> FALSE, charges |-> <<Charge>>],
                 qualityScore |-> 0,
                 dataIssues |-> <<>>]
    /\ request = [company |-> Text(<<"ACME", " ", "LTD">>), maxPages |-> Number(1),
                  maxPeoplePages |-> Absent]
    /\ spc = "quality"
    /\ maxPeoplePages = 5
    /\ pending = NoError
    /\ phases = <<Ran("search", "data"), Ran("overview", "data"), Ran("filing", "data"),
                  Ran("people", "data"), Ran("charges", "data")>>
    /\ closes = 0
    /\ response = NoResponse
    /\ retries = <<>>
    /\ NavParked
    /\ ExtractParked
    /\ PagingParked
    /\ StatsParked
    /\ CategorizeParked
    /\ ConcurrentParked

QualityNext == ScrapeQuality

SpecQuality == QualityInit /\ [][QualityNext]_vars

CategorizeInit ==
    /\ catIn \in Descriptions
    /\ catOut = <<>>
    /\ NavParked
    /\ ExtractParked
    /\ PagingParked
    /\ StatsParked
    /\ ScrapeParked
    /\ ConcurrentParked

CategorizeNext == Categorize

SpecCategorize == CategorizeInit /\ [][CategorizeNext]_vars

ConcurrentInit ==
    /\ resolved \in Implementations
    /\ rpc = [r \in Requests |-> NotStarted]
    /\ touched = [objects |-> <<>>, files |-> [f \in FilePaths |-> {}]]
    /\ NavParked
    /\ ExtractParked
    /\ PagingParked
    /\ StatsParked
    /\ ScrapeParked
    /\ CategorizeParked

ConcurrentNext ==
    \E r \in Requests :
        \/ ReqNew(r)
        \/ ReqInitialize(r)
        \/ ReqSearch(r)
        \/ ReqSection(r)
        \/ ReqFiling(r)
        \/ ReqClose(r)

SpecConcurrent == ConcurrentInit /\ [][ConcurrentNext]_vars

\* C14: two concurrent requests use disjoint resources: no browser session,
\* page, result object or file is used by both.
C14_NoResourceSharedAcrossRequests ==
    /\ \A h \in 1..Len(touched.objects) : Cardinality(touched.objects[h]) <= 1
    /\ \A f \in FilePaths : Cardinality(touched.files[f]) <= 1

(***************************************************************************)
(* Claims about the filing extractor                                       *)
(***************************************************************************)
YieldsLinkedFiling(o) ==
    /\ ~o.threw
    /\ \E i \in 1..Len(o.filings) : o.filings[i].documentLinks # <<>>

\* C1: the strategies run in the order Direct DOM, LLM, Hybrid; the result is
\* that of the first strategy returning a filing with a non-empty
\* documentLinks; a strategy that throws or returns no such filing is passed
\* over, none runs after the winner, and with no winner the result is [].
C1_FirstLinkedStrategyWins ==
    /\ Len(xouts) <= Len(StrategyNames)
    /\ \A i \in 1..Len(xouts) : xouts[i].name = StrategyNames[i]
    /\ \A i \in 1..(Len(xouts) - 1) : ~YieldsLinkedFiling(xouts[i])
    /\ xpc # "done" =>
          /\ xpc = StrategyNames[Len(xouts) + 1]
          /\ \A i \in 1..Len(xouts) : ~YieldsLinkedFiling(xouts[i])
    /\ xpc = "done" =>
          /\ xouts # <<>>
          /\ IF YieldsLinkedFiling(xouts[Len(xouts)])
             THEN xresult = xouts[Len(xouts)].filings
             ELSE Len(xouts) = Len(StrategyNames) /\ xresult = <<>>

\* Direct DOM found filings but no link and was passed over; the LLM won and
\* Hybrid never ran.
C1_Witness ==
    /\ xpc = "done"
    /\ Len(xouts) = 2
    /\ ~xouts[1].threw /\ xouts[1].filings # <<>>
    /\ xresult = xouts[2].filings
    /\ xresult # <<>>

\* C10: every filing the extractor returns, whichever strategy produced it,
\* has a date matching \d{1,2}\s+\w+\s+\d{4}.
C10_ReturnedDatesMatchPattern ==
    xpc = "done" => \A i \in 1..Len(xresult) : MatchesDatePattern(xresult[i].date)

\* C11: every DocumentLink.url the extractor returns is absolute and begins
\* with the registry origin, whatever form the href or the LLM's url had.
C11_LinkUrlsBeginWithOrigin ==
    xpc = "done" =>
        \A i \in 1..Len(xresult) :
            \A k \in 1..Len(xresult[i].documentLinks) :
                StartsWith(xresult[i].documentLinks[k].url, Origin)

\* The rules of the filing-type table in their order: a rule applies when the
\* lower-cased description contains every phrase of one of its alternatives
TypeRules ==
    << [anyOf |-> {{<<"confirmation", " ", "statement">>}}, type |-> "Confirmation Statement"],
       [anyOf |-> {{<<"annual", " ", "return">>}}, type |-> "Annual Return"],
       [anyOf |-> {{<<"accounts">>, <<"micro">>}}, type |-> "Micro Company Accounts"],
       [anyOf |-> {{<<"accounts">>, <<"small">>}}, type |-> "Small Company Accounts"],
       [anyOf |-> {{<<"accounts">>, <<"dormant">>}}, type |-> "Dormant Company Accounts"],
       [anyOf |-> {{<<"accounts">>}}, type |-> "Company Accounts"],
       [anyOf |-> {{<<"incorporation">>}}, type |-> "Incorporation"],
       [anyOf |-> {{<<"appointment">>}}, type |-> "Officer Appointment"],
       [anyOf |-> {{<<"termination">>}, {<<"resignation">>}}, type |-> "Officer Termination"],
       [anyOf |-> {{<<"change">>, <<"details">>}}, type |-> "Officer Details Change"],
       [anyOf |-> {{<<"resolution">>}}, type |-> "Resolution"],
       [anyOf |-> {{<<"charge">>}}, type |-> "Charge Registration"] >>

RuleApplies(rule, lower) ==
    \E alternative \in rule.anyOf : \A phrase \in alternative : Includes(lower, phrase)

ApplicableRules(lower) == { i \in 1..Len(TypeRules) : RuleApplies(TypeRules[i], lower) }

\* C12: categorizeFilingType returns the type of the first rule of the table
\* that applies to the lower-cased description, and Other when none does.
C12_FirstMatchingRuleWins ==
    catOut # <<>> =>
        LET applicable == ApplicableRules(ToLowerCase(catIn))
        IN  IF applicable = {} THEN catOut = <<"Other">>
            ELSE \E i \in applicable :
                    /\ \A k \in applicable : i <= k
                    /\ catOut = <<TypeRules[i].type>>

\* a description with both "accounts" and "micro" has been categorized, and
\* one to which a later rule alone applies
C12_Witness ==
    /\ catOut = <<"Micro Company Accounts">>
    /\ {3, 6} \subseteq ApplicableRules(ToLowerCase(catIn))
    /\ Includes(catIn, <<"MICRO">>)

\* the rows of the table whose date and description the Hybrid strategy read
HybridReadableRows ==
    SelectSeq(HybridTableStructure(dom), LAMBDA r : r.date # <<>> /\ r.description # <<>>)

\* C19: the Hybrid strategy keeps every row whose date and description were
\* extracted, also when the LLM call for the row's links fails; only rows
\* with an empty date or description are left out.
C19_HybridKeepsRowsOnLinkFailure ==
    \A i \in 1..Len(xouts) :
        (xouts[i].name = "Hybrid Approach" /\ ~xouts[i].threw /\ dom.hasTable) =>
            /\ Len(xouts[i].filings) = Len(HybridReadableRows)
            /\ \A k \in 1..Len(xouts[i].filings) :
                  xouts[i].filings[k].date = HybridReadableRows[k].date

(***************************************************************************)
(* Claims about the pagination of the filing history                       *)
(***************************************************************************)
\* the loop has been set up: the page count was read and no navigation threw
LoopEntered == estimatedTotalPages >= 1

\* C2: extractFilingHistory(M) with T detected pages runs page extraction on
\* at most min(T, M) pages and calls navigateToFilingPage at most
\* min(T, M) - 1 times; with M = 1 and T = 5 it extracts exactly one page,
\* pagesScraped is 1 and navigateToFilingPage is never called.
C2_ScansAtMostMinPages ==
    /\ LoopEntered =>
          /\ pagesScraped <= Min(estimatedTotalPages, maxPages)
          /\ fNavCalls <= Min(estimatedTotalPages, maxPages) - 1
          /\ Cardinality(fShown) <= Min(estimatedTotalPages, maxPages)
    /\ (fpc \in {"return", "done"} /\ maxPages = 1 /\ estimatedTotalPages = 5) =>
          /\ pagesScraped = 1
          /\ fNavCalls = 0
          /\ fShown = {1}

C2_Witness ==
    /\ fpc = "done"
    /\ maxPages = 1
    /\ estimatedTotalPages = 5
    /\ ~fresult.isNull
    /\ fresult.pagesScraped = 1
    /\ fNavCalls = 0

\* C3: in every non-null result of extractFilingHistory, pagesScraped is the
\* number of result pages the browser was on when extraction ran; an
\* iteration that stops the loop because the observed page differs from the
\* requested one adds nothing to it.
C3_PagesScrapedCountsVisitedPages ==
    (fpc = "done" /\ ~fresult.isNull) => fresult.pagesScraped = Cardinality(fShown)

\* The site behaviour the filing loop met, handed to the people loop: the same
\* page after each navigation, as many records on each page, the same answer
\* of the current-page query, the same navigation error
ReplayNav(k, from, to) ==
    CHOOSE env \in PageNavEnvs :
        navigateToPeoplePage(k, from, env) = [threw |-> FALSE, browser |-> to]

ReplayThrow(k, from) ==
    CHOOSE env \in PageNavEnvs : navigateToPeoplePage(k, from, env).threw

ReplayPages(n) ==
    [k \in 1..n |->
        IF k <= Len(fLog)
        THEN [nav |-> IF k = 1 THEN PageNav(TRUE, FALSE)
                      ELSE ReplayNav(k, fLog[k - 1].browser, fLog[k].browser),
              officers |-> [j \in 1..fLog[k].records |-> OfficerActive],
              curFails |-> /\ fLog[k].records = 0
                           /\ fLog[k].observed # getCurrentPeoplePage(fLog[k].browser, FALSE)]
        ELSE IF fpc = "caught" /\ k = Len(fLog) + 1
        THEN [nav |-> ReplayThrow(k, fLog[k - 1].browser), officers |-> <<>>,
              curFails |-> FALSE]
        ELSE [nav |-> PageNav(TRUE, FALSE), officers |-> <<OfficerActive>>,
              curFails |-> FALSE]]

SamePagination(loop, people) ==
    /\ loop.threw = (fpc = "caught")
    /\ loop.pagesScraped = pagesScraped
    /\ loop.browser = browser
    /\ Len(loop.officers) = Len(allFilings)
    /\ people.value.isNull = fresult.isNull
    /\ ~fresult.isNull => people.value.pagesScraped = fresult.pagesScraped

PeopleReplay ==
    PeopleLoop(1, Min(getPeopleTotalPageCount(1..estimatedTotalPages, FALSE), maxPages),
               fLog[1].browser, ReplayPages(Min(estimatedTotalPages, maxPages)), <<>>, 0)

\* C15: on the same detected page count, the same maxPages and the same pages
\* (records or none, observed page number), extractPeople scans the pages
\* extractFilingHistory scans, stops where it stops, reports the same
\* pagesScraped and returns null exactly when it does.
C15_PeoplePaginationMatchesFilings ==
    (fpc \in {"done", "caught"} /\ fLog # <<>>) =>
        SamePagination(PeopleReplay, PeopleData(PeopleReplay))

\* both loops stopped early on a page mismatch after a page with records
C15_Witness ==
    /\ fpc = "done"
    /\ ~fresult.isNull
    /\ Len(fLog) = 2
    /\ fLog[2].stopped
    /\ Min(estimatedTotalPages, maxPages) > 2
    /\ PeopleData(PeopleReplay).value.pagesScraped = 2

\* C16: on every page k > 1 the page indicator equals k when extraction runs;
\* a page whose indicator differs is never extracted from.
C16_PageVerifiedBeforeExtraction ==
    \A i \in 1..Len(fLog) :
        fLog[i].page > 1 => getCurrentFilingPage(fLog[i].browser, FALSE) = fLog[i].page

\* the loop ended with entry i although pages were left to scan
EndedEarlyAt(i) ==
    /\ i = Len(fLog)
    /\ fpc \in {"return", "done"}
    /\ fLog[i].page < Min(estimatedTotalPages, maxPages)

\* the loop went on after entry i, or entry i was the last page to scan
WentOnAfter(i) ==
    \/ i < Len(fLog) /\ fLog[i + 1].page = fLog[i].page + 1
    \/ i = Len(fLog) /\ fpc = "page" /\ pageNum = fLog[i].page + 1
    \/ i = Len(fLog) /\ fpc = "caught" /\ pageNum = fLog[i].page + 1
    \/ i = Len(fLog) /\ fLog[i].page = Min(estimatedTotalPages, maxPages)

\* C17: a page without records ends the pagination only when the observed
\* page number differs from the requested one; when it is the requested one
\* the page is counted in pagesScraped and the loop goes on to the next page.
C17_EmptyPageStopsOnlyOnMismatch ==
    \A i \in 1..Len(fLog) :
        /\ EndedEarlyAt(i) => fLog[i].records = 0 /\ fLog[i].observed # fLog[i].page
        /\ (fLog[i].records = 0 /\ fLog[i].observed = fLog[i].page) =>
              /\ pagesScraped >= i
              /\ WentOnAfter(i)

\* a page without records passed the identity check, the loop went on to the
\* next page and the section was returned
C17_Witness ==
    /\ fpc = "done"
    /\ ~fresult.isNull
    /\ \E i \in 1..(Len(fLog) - 1) :
          /\ fLog[i].records = 0
          /\ fLog[i].observed = fLog[i].page
          /\ fLog[i + 1].records > 0
          /\ fresult.pagesScraped > i

\* C18: when the loop ends early at a page k > 1, by a page mismatch or by a
\* navigation error, the records of the earlier pages are returned.
C18_EarlyEndKeepsRecords ==
    (fpc \in {"done", "caught"} /\ pageNum > 1 /\ Len(allFilings) > 0) =>
        /\ ~fresult.isNull
        /\ fresult.filings = allFilings

(***************************************************************************)
(* Claims about the filing statistics                                      *)
(***************************************************************************)
WithDocuments(filings) ==
    Cardinality({ i \in 1..Len(filings) : Len(filings[i].documentLinks) > 0 })

\* rate is 100 * part / whole rounded to the nearest integer, halves up
IsRoundedPercent(rate, part, whole) ==
    /\ 2 * whole * rate <= 200 * part + whole
    /\ 200 * part + whole < 2 * whole * (rate + 1)

RateAsSpecified(out) ==
    \A i \in 1..Len(out) :
        /\ out[i].documentSuccessRate \in 0..100
        /\ Len(statsIn) = 0 => out[i].documentSuccessRate = 0
        /\ Len(statsIn) > 0 =>
              IsRoundedPercent(out[i].documentSuccessRate, WithDocuments(statsIn),
                               Len(statsIn))

\* C9: for every list of filings, documentSuccessRate is an integer in
\* [0,100] equal to round(100 * filings with a document link / filings),
\* and 0 for the empty list, in calculateFilingStatistics and in the
\* bridge's calculateStatistics alike.
C9_SuccessRateIsRoundedShare == RateAsSpecified(statsOut) /\ RateAsSpecified(bridgeOut)

(***************************************************************************)
(* Claims about scrapeCompany and the report handler                       *)
(***************************************************************************)
PhaseOrder == <<"search", "overview", "filing", "people", "charges", "quality">>

SearchSucceeded == Len(phases) >= 1 /\ phases[1] = Ran("search", "data")

SearchFailed == Len(phases) >= 1 /\ phases[1] = Ran("search", "threw")

Returned_ == spc \in {"close", "respond", "responded"}

\* C4: once searchCompany has succeeded, the phases run in the order
\* overview, filing history, people, charges, quality scoring, each once;
\* a phase that fails leaves its own section null and no other; the later
\* phases still run and scrapeCompany returns without throwing.
C4_PhaseFailuresStayLocal ==
    SearchSucceeded =>
        /\ Len(phases) <= Len(PhaseOrder)
        /\ \A i \in 1..Len(phases) :
              /\ phases[i].phase = PhaseOrder[i]
              /\ phases[i].outcome # "threw"
        /\ \A i \in 2..5 :
              i <= Len(phases) =>
                 /\ phases[i].outcome = "error" => result[PhaseOrder[i]].isNull
                 /\ phases[i].outcome = "data" => ~result[PhaseOrder[i]].isNull
        /\ Returned_ => (Len(phases) = Len(PhaseOrder) /\ ~pending.threw)

C4_Witness ==
    /\ spc = "responded"
    /\ SearchSucceeded
    /\ Len(phases) = 6
    /\ phases[3].outcome = "error"
    /\ phases[4].outcome = "error"
    /\ result.filing.isNull
    /\ result.people.isNull
    /\ ~result.overview.isNull
    /\ ~result.charges.isNull
    /\ response.success

ErrorClassifications ==
    {"COMPANY_NOT_FOUND", "NETWORK_ERROR", "RATE_LIMIT", "INTERNAL_ERROR"}

\* C5: when company search/selection fails, runEnhancedCompaniesScraper
\* throws to its caller and the handler answers success=false with an error
\* classification.
C5_SearchFailureIsFatal ==
    (SearchFailed /\ spc = "responded") =>
        /\ pending.threw
        /\ ~response.success
        /\ response.code \in ErrorClassifications

AllSectionsEmpty(r) ==
    /\ r.overview.isNull
    /\ r.filing.isNull
    /\ ~HasOfficers(r)
    /\ r.charges.isNull

\* C7: for every combination of section outcomes the qualityScore computed
\* by calculateQualityScore lies in [0,100]; with all sections empty it is 0.
C7_QualityScoreInRange ==
    /\ result.qualityScore \in 0..100
    /\ (spc = "close" /\ AllSectionsEmpty(result)) => result.qualityScore = 0

C7_Witness ==
    /\ spc = "close"
    /\ phases[Len(phases)] = Ran("quality", "data")
    /\ ~result.overview.isNull
    /\ HasFilings(result)
    /\ result.filing.statistics.documentSuccessRate > 80
    /\ HasOfficers(result)
    /\ ~result.charges.isNull
    /\ result.qualityScore = 100

QualityRan == Returned_ /\ Len(phases) = Len(PhaseOrder)

\* the same result with a filing section whose documentSuccessRate is 100
WithGoodFilings(r) == [r EXCEPT !.filing = FilingSection(MakeFilings(3, 0), 1, TRUE)]

\* C8: if every strategy yields zero filings on every scanned page, the
\* filing section is null, dataIssues contains 'No filing history
\* extracted', and qualityScore is exactly 40 below the score of the same
\* result with filings present at a documentSuccessRate above 80.
C8_NoFilingsCostsForty ==
    (QualityRan /\ ~fYielded) =>
        /\ result.filing.isNull
        /\ \E i \in 1..Len(result.dataIssues) :
              result.dataIssues[i] = "No filing history extracted"
        /\ result.qualityScore = calculateQualityScore(WithGoodFilings(result)).score - 40

C8_Witness ==
    /\ QualityRan
    /\ ~fYielded
    /\ pagesScraped >= 1
    /\ phases[3].outcome = "empty"
    /\ ~result.overview.isNull
    /\ HasOfficers(result)
    /\ result.qualityScore = 45

\* C13: the handler calls getEnhancedAnthropicSummary exactly when the quality
\* score is at least 40; below 40 no call is made and llm_summary is the
\* "Data quality insufficient" message with the quality report.
C13_SummaryOnlyAboveThreshold ==
    (response.sent /\ response.status = 200) =>
        /\ response.summaryCalled <=> response.score >= 40
        /\ response.score < 40 =>
              response.llm_summary = "Data quality insufficient for AI analysis"
        /\ response.score >= 40 =>
              response.llm_summary \in {"narrative", "AI summary generation failed"}

\* a report whose score is below the threshold has been answered
C13_Witness ==
    /\ response.sent
    /\ response.status = 200
    /\ response.score < 40
    /\ ~response.summaryCalled
    /\ response.llm_summary = "Data quality insufficient for AI analysis"

\* C20: each retryOperation of searchCompany invokes its operation between one
\* and three times, stops at the first success, sleeps 2000 ms times the
\* attempt number after each failure but the last, and throws after the third
\* failure; no phase of scrapeCompany runs twice.
C20_RetryIsBoundedWithLinearBackoff ==
    /\ \A i \in 1..Len(retries) :
          LET r == retries[i]
          IN  /\ r.calls \in 1..3
              /\ \A j \in 1..(r.calls - 1) : r.attempts[j] # <<>>
              /\ r.threw <=> r.attempts[r.calls] # <<>>
              /\ r.threw => r.calls = 3
              /\ Len(r.waits) = r.calls - 1
              /\ \A j \in 1..Len(r.waits) : r.waits[j] = 2000 * j
    /\ \A i \in 1..Len(phases) : \A k \in 1..Len(phases) :
          phases[i].phase = phases[k].phase => i = k

\* the initial navigation succeeded at its third attempt and the search
\* failed three times
C20_Witness ==
    /\ Len(retries) = 2
    /\ ~retries[1].threw
    /\ retries[1].calls = 3
    /\ retries[1].waits = <<2000, 4000>>
    /\ retries[2].threw
    /\ retries[2].calls = 3
    /\ retries[2].waits = <<2000, 4000>>
    /\ spc = "close"

(***************************************************************************)
(* Claims about the Navigator                                              *)
(***************************************************************************)
ApproachNames == <<"clickTabLink", "directURLNavigation", "searchAndClick">>

\* the attempt did not throw and its URL or title answers to the section name
AttemptPassed(e) ==
    /\ ~e.threw
    /\ \/ Includes(ToLowerCase(e.url), ReplaceFirstSpace(ToLowerCase(nsection)))
       \/ Includes(ToLowerCase(e.title), ToLowerCase(nsection))

\* C6: navigateToSection tries semantic click, direct URL, DOM search-and-click
\* in that order, checks URL and title after each attempt that did not throw,
\* returns success at the first attempt passing the check without running the
\* rest, and throws 'Failed to navigate' when none passes; it never returns a
\* non-success value.
C6_FirstVerifiedApproachReturns ==
    /\ npc \in {"clickTabLink", "directURLNavigation", "searchAndClick", "returned", "threw"}
    /\ Len(ntrace) <= Len(ApproachNames)
    /\ \A i \in 1..Len(ntrace) : ntrace[i].approach = ApproachNames[i]
    /\ \A i \in 1..(Len(ntrace) - 1) : ~AttemptPassed(ntrace[i])
    /\ npc \notin {"returned", "threw"} =>
          /\ npc = ApproachNames[Len(ntrace) + 1]
          /\ \A i \in 1..Len(ntrace) : ~AttemptPassed(ntrace[i])
    /\ npc = "returned" => ntrace # <<>> /\ AttemptPassed(ntrace[Len(ntrace)])
    /\ npc = "threw" =>
          /\ Len(ntrace) = Len(ApproachNames)
          /\ \A i \in 1..Len(ntrace) : ~AttemptPassed(ntrace[i])

\* the click did not throw but left the browser on a page that fails the
\* check; the direct URL passed it; search-and-click never ran
C6_Witness ==
    /\ npc = "returned"
    /\ Len(ntrace) = 2
    /\ ~ntrace[1].threw
    /\ browser.url = PageUrl("filing-history")

(***************************************************************************)
(* The weights of calculateQualityScore                                    *)
(***************************************************************************)
QualityComputed == spc = "close" /\ phases[Len(phases)] = Ran("quality", "data")

\* what a section adds to the score: the score of the result less the score
\* of the same result without that section
SectionContribution(r, section) ==
    calculateQualityScore(r).score
    - calculateQualityScore([r EXCEPT ![section] = Null]).score

OverviewContribution(r) == SectionContribution(r, "overview")

\* C21: a present overview contributes up to 25 to qualityScore, of which 10
\* are earned only if companyName is present and 10 only if companyNumber is
\* present; a present overview lacking both contributes only the baseline.
C21_OverviewPointsDependOnContent ==
    (QualityComputed /\ ~result.overview.isNull) =>
        /\ OverviewContribution(result) <= 25
        /\ result.overview.companyName = <<>> => OverviewContribution(result) <= 15
        /\ result.overview.companyNumber = <<>> => OverviewContribution(result) <= 15
        /\ (result.overview.companyName = <<>> /\ result.overview.companyNumber = <<>>)
              => OverviewContribution(result) <= 5

\* the maximum weight of each section and the issue strings that speak of it
SectionWeights ==
    [overview |-> 25, filing |-> 40, people |-> 20, charges |-> 15]

SectionIssues ==
    [overview |-> {"Missing company name", "Missing company number",
                   "No company overview extracted"},
     filing   |-> {"Low PDF document extraction rate", "Very limited filing history",
                   "No filing history extracted"},
     people   |-> {"No officer information extracted"},
     charges  |-> {"No charges information extracted"}]

HasIssueAbout(r, section) ==
    \E i \in 1..Len(r.dataIssues) : r.dataIssues[i] \in SectionIssues[section]

\* C22: each component of the quality score that falls short of its maximum
\* weight (overview 25, filings 40, officers 20, charges 15) is paired with
\* at least one issue string in dataIssues, and dataIssues is empty only when
\* qualityScore is 100.
C22_EveryShortfallHasAnIssue ==
    QualityComputed =>
        /\ \A section \in DOMAIN SectionWeights :
              SectionContribution(result, section) < SectionWeights[section]
                  => HasIssueAbout(result, section)
        /\ result.dataIssues = <<>> => result.qualityScore = 100

(***************************************************************************)
(* statistics.filingTypes                                                  *)
(***************************************************************************)
\* the labels categorizeFilingType can return
CategoryLabels == { TypeRules[i].type : i \in 1..Len(TypeRules) } \cup {"Other"}

RECURSIVE HistogramTotal(_, _)
HistogramTotal(histogram, keys) ==
    IF keys = {} THEN 0
    ELSE LET k == CHOOSE k \in keys : TRUE
         IN  histogram[k] + HistogramTotal(histogram, keys \ {k})

\* C23: in every non-null filing section, statistics.filingTypes is a
\* histogram whose keys are exactly the categories categorizeFilingType gives
\* the filings' descriptions, its counts sum to totalFilings = filings.length,
\* and no filing carries a type outside the 13 labels of the categorization.
C23_FilingTypesAreCategories ==
    ~fresult.isNull =>
        LET filings == fresult.filings
            filingTypes == fresult.statistics.filingTypes
        IN  /\ DOMAIN filingTypes =
                  { <<categorizeFilingType(filings[i].description)>> : i \in 1..Len(filings) }
            /\ HistogramTotal(filingTypes, DOMAIN filingTypes) = fresult.statistics.totalFilings
            /\ fresult.statistics.totalFilings = Len(filings)
            /\ fresult.totalFilings = Len(filings)
            /\ \A i \in 1..Len(filings) : filings[i].type \in { <<l>> : l \in CategoryLabels }
            /\ Cardinality(CategoryLabels) = 13

\* every strategy ran, each returned filings, and none of the filings of any
\* strategy has a document link
AllFoundFilingsNoneLinked ==
    /\ Len(xouts) = Len(StrategyNames)
    /\ \A i \in 1..Len(xouts) :
          /\ ~xouts[i].threw
          /\ xouts[i].filings # <<>>
          /\ \A k \in 1..Len(xouts[i].filings) : xouts[i].filings[k].documentLinks = <<>>

\* C24: whenever extractWithMultipleStrategies returns a non-empty list, at
\* least one returned filing has a non-empty documentLinks; a page on which
\* every strategy finds filings but none finds a document link yields [].
C24_NonEmptyResultHasALink ==
    xpc = "done" =>
        /\ xresult # <<>> =>
              \E i \in 1..Len(xresult) : xresult[i].documentLinks # <<>>
        /\ AllFoundFilingsNoneLinked => xresult = <<>>

\* the three strategies each found the row, none found its link, and the
\* link-less filings were dropped
C24_Witness ==
    /\ xpc = "done"
    /\ AllFoundFilingsNoneLinked
    /\ xresult = <<>>
    /\ xouts[3].filings # <<>>

\* C25: for every section name of the name-to-path table, when direct URL
\* navigation loads the table's target URL without error, navigateToSection
\* accepts that attempt as a verified success whatever the page title is: the
\* URL check alone passes for the URL the navigator constructed.
C25_DirectURLPassesOnUrlAlone ==
    \A i \in 1..Len(ntrace) :
        ( /\ ntrace[i].approach = "directURLNavigation"
          /\ ~ntrace[i].threw
          /\ SectionPath(ToLowerCase(nsection)) # <<>> ) =>
            /\ Includes(ToLowerCase(ntrace[i].url), ReplaceFirstSpace(ToLowerCase(nsection)))
            /\ i = Len(ntrace)
            /\ npc = "returned"

\* C26: every invocation of runEnhancedCompaniesScraper closes the browser
\* session exactly once before it returns or throws, whether initialization,
\* search or any extraction phase succeeded or failed, and an error raised
\* while closing is never propagated to the caller.
C26_SessionClosedOnceAndQuietly ==
    \A r \in DOMAIN rpc :
        rpc[r].pc = "done" =>
            /\ rpc[r].outcome \in {"returned", "threw"}
            /\ rpc[r].closes = 1
            /\ ~rpc[r].closeError

\* C27: the score that gates the AI summary and is reported as
\* metadata.qualityAssessment.score equals the qualityScore of the scraping
\* result returned in data; the two always agree on whether the result is at
\* or above the summary threshold of 40.
C27_AssessedScoreIsQualityScore ==
    (response.sent /\ response.success) =>
        /\ response.score = result.qualityScore
        /\ QualitySufficient(response.score) <=> QualitySufficient(result.qualityScore)

(***************************************************************************)
(* Claims about request validation                                         *)
(***************************************************************************)
\* the company names the validation is to refuse: missing, not a string,
\* trimmed length below 2 or above 200, or holding a suspicious pattern
FailsValidation(company) ==
    \/ company.type # "string"
    \/ company.text = <<>>
    \/ StringLength(Trim(company.text)) < 2
    \/ StringLength(Trim(company.text)) > 200
    \/ \E i \in 1..Len(company.text) : company.text[i] \in SuspiciousTokens

\* C28: a request whose company name fails validation is answered with status
\* 400 and code VALIDATION_ERROR, and the scraper is never started for it: no
\* browser session is opened, no LLM call and no database write occurs.
C28_InvalidNameNeverScraped ==
    FailsValidation(request.company) =>
        /\ spc \in {"request", "responded"}
        /\ spc = "responded" =>
              /\ response.sent
              /\ response.status = 400
              /\ response.code = "VALIDATION_ERROR"
              /\ ~response.success
        /\ phases = <<>>
        /\ closes = 0
        /\ result = EmptyResult
        /\ ~response.summaryCalled
        /\ ~response.saved

\* a name of 201 characters has been refused
C28_Witness ==
    /\ request.company.type = "string"
    /\ StringLength(Trim(request.company.text)) > 200
    /\ spc = "responded"
    /\ response.status = 400
    /\ response.code = "VALIDATION_ERROR"

\* the request got past the handler's validations
Accepted == spc = "initialize"

\* C29: for every value of maxPages and maxPeoplePages in the request body
\* (absent, null, non-numeric, below 1, above 50, in range) the page limits
\* passed to runEnhancedCompaniesScraper are integers in [1,50], 10 for an
\* absent maxPages and 5 for an absent or zero maxPeoplePages, and an invalid
\* value never causes the request to be rejected.
C29_PageLimitsAreClamped ==
    /\ Accepted =>
          /\ maxPages \in 1..50
          /\ maxPeoplePages \in 1..50
          /\ request.maxPages.kind \in {"absent", "null"} => maxPages = 10
          /\ ( \/ request.maxPeoplePages.kind \in {"absent", "null"}
               \/ request.maxPeoplePages = Number(0) ) => maxPeoplePages = 5
    /\ spc # "request" => (Accepted <=> ~FailsValidation(request.company))
    /\ response.sent => FailsValidation(request.company)

\* a maxPages above 50 and a maxPeoplePages of zero were accepted as 50 and 5
C29_Witness ==
    /\ Accepted
    /\ request.maxPages.kind = "number"
    /\ request.maxPages.n > 50
    /\ request.maxPeoplePages = Number(0)
    /\ maxPages = 50
    /\ maxPeoplePages = 5

(***************************************************************************)
(* Claims about the people section                                         *)
(***************************************************************************)
\* C30: in every non-null result of extractPeople, totalOfficers equals
\* officers.length, activeOfficers counts exactly the officers without a
\* resignationDate, resignedOfficers exactly those with one, and
\* activeOfficers + resignedOfficers = totalOfficers >= 1.
C30_OfficerCountsPartitionTheList ==
    ~result.people.isNull =>
        LET people == result.people
            resigned == { i \in 1..Len(people.officers) :
                            people.officers[i].resignationDate # <<>> }
        IN  /\ people.totalOfficers = Len(people.officers)
            /\ people.resignedOfficers = Cardinality(resigned)
            /\ people.activeOfficers = Len(people.officers) - Cardinality(resigned)
            /\ people.activeOfficers + people.resignedOfficers = people.totalOfficers
            /\ people.totalOfficers >= 1

\* extractPeople returned a list holding an active and a resigned officer
C30_Witness ==
    /\ ~result.people.isNull
    /\ Len(phases) >= 4
    /\ phases[4] = Ran("people", "data")
    /\ result.people.activeOfficers >= 1
    /\ result.people.resignedOfficers >= 1

====
